---- MODULE Spec2Model ----
(***************************************************************************)
(* Model of the face-validation service's session pool (ModelSessionPool)  *)
(* and of the /validate-face request handler that leases sessions from it. *)
(* Every goroutine is a process of the model: the request handlers, the    *)
(* pool's healthCheck loop, and the two callers of Destroy in main (the    *)
(* deferred call and the signal goroutine).  Unsynchronised reads of       *)
(* p.closed are separate atomic steps, so every interleaving of the racing *)
(* read and write is explored.  Wall-clock durations are not part of the   *)
(* state: PoolMetrics.waitTime is left out, and the 5 s acquire timer is   *)
(* the event TimerFire.                                                    *)
(*                                                                         *)
(* Further parts, each with a specification of its own: the constructor    *)
(* NewModelSessionPool (SpecNew), detections.ProcessImage taken stage by   *)
(* stage inside a request (SpecRequest, and SpecShutdown with Destroy),    *)
(* the success response of the handler (SpecResponse), processPredictions  *)
(* with its worker goroutines (SpecPredictions) and calculateBBox          *)
(* (SpecBBox), calculateIOU (SpecIOU), clusterBoxes followed by the        *)
(* response (SpecClustering), prepareInput with the scalar path and the    *)
(* assembly row routines, float32 values held as IEEE-754 bit patterns     *)
(* (SpecPrepare), the health check with initSession failing repeatedly     *)
(* (SpecHealth), main with its signal goroutine from start-up to exit      *)
(* (SpecMain), the request goroutines with cancellation arriving before    *)
(* Acquire (SpecCancelled), the open pool under fair scheduling            *)
(* (SpecOpenPool), dbscan one loop pass at a time (SpecDbscan), the rows   *)
(* of the scalar preprocessing handed to worker goroutines (SpecRows), and *)
(* processPredictions under fair scheduling (SpecPredictionsFair).  A      *)
(* specification holds the parts it does not run at rest.                  *)
(***************************************************************************)
EXTENDS Integers, Naturals, Sequences, FiniteSets, TLC

\* ---------------------------------------------------------------- bounds
NumHandlers == 2          \* requests in one run, each in its own goroutine
ReqSize == 1              \* the size argument given to NewModelSessionPool
MaxInits == 1             \* initSession calls made by replenishSessions
MaxFailures == 12         \* initSession failures met by replenishSessions
MaxNewSize == 5           \* largest size argument tried on NewModelSessionPool
MaxBoxes == 40            \* largest number of boxes ProcessImage returns
NumPredictions == 5       \* grid cells in the output buffer (1344 in the build)
ChunkSize == 2            \* cells per job (512 in the build)
NumWorkers == 2           \* runtime.NumCPU()
MaxCoord == 2             \* largest corner coordinate given to calculateIOU
MaxDets == 4              \* most detections given to clusterBoxes
MaxPoints == 5            \* most points given to dbscan when it is stepped
MaxRows == 4              \* most rows of the input when the rows are handed out
MaxRowWorkers == 5        \* most worker goroutines the rows are handed to
RowWidth == 2             \* width of the input when the rows are handed out
PrepWidth == 16           \* p.width of the preprocessor (640 in the build)
PrepHeight == 1           \* p.height of the preprocessor (640 in the build)

\* ------------------------------------------------------ program constants
DefaultPoolSize == 4
MaxLastErrors == 10
RetryAttempts == 3
RetryDelayMs == 100
ConfThreshold == 6        \* 0.6, confidences counted in tenths
InputWidth == 640
InputHeight == 640
FUnit == 64               \* a float32 value v is held as the integer v * 64
DefaultClusterSize == 50
IouThreshold == 45        \* 0.45, in hundredths

Handlers == 1..NumHandlers
Destroyers == {"first", "second"}  \* main's two callers, by arrival at p.mu
Free == "free"
Nil == 0                  \* the nil *ModelSession
NoSnapshot == <<>>
NoResponse == <<>>

\* NewModelSessionPool: size <= 0 selects the default
NewPoolSize(size) == IF size <= 0 THEN DefaultPoolSize ELSE size
PoolSize == NewPoolSize(ReqSize)

\* session identities: the initial ones and those built by replenishSessions
MaxSessionId == PoolSize + MaxInits
SessionIds == 1..MaxSessionId

\* grid cells of the output buffer, worker goroutines, confidence values
\* (below, at and above the threshold)
Cells == 0..(NumPredictions - 1)
Workers == 1..NumWorkers
Confidences == {ConfThreshold - 1, ConfThreshold, ConfThreshold + 1}

\* size arguments NewModelSessionPool is called with
NewSizes == (0 - 1)..MaxNewSize
\* identities of the sessions one call of NewModelSessionPool can build
CtorIds == 1..(IF MaxNewSize > DefaultPoolSize THEN MaxNewSize
               ELSE DefaultPoolSize)

VARIABLES
    sessions,        \* p.sessions: the buffered channel's contents
    chanClosed,      \* close(p.sessions) has run
    closed,          \* p.closed
    mu,              \* p.mu: Free or the goroutine holding it
    metricsMu,       \* p.metrics.mu is held for writing
    inUse, totalAcquired, totalReleased, acquireFailures,
    lastErrors,      \* p.lastErrors
    pc,              \* handler position
    sess,            \* handler local: session
    acqErr,          \* handler local: err returned by Acquire
    cancelled,       \* the request context is done (client gone, or handler returned)
    timerFired,      \* time.After(AcquireTimeout) has fired
    resp,            \* response written by the handler
    acquired,        \* Acquire returned (session, nil) to this request
    relCalls,        \* number of Release calls made by this request
    returnedTo,      \* what Release did with the session
    hpanic,          \* the handler goroutine panicked (recovered by net/http)
    hcPc, hcCount, hcI, hcSess,
    dpc,             \* Destroy caller position
    closeCount,      \* number of close(p.sessions) executions
    destroyCnt,      \* per session: number of session.Destroy() calls
    built,           \* number of sessions constructed so far
    initFailures,    \* number of initSession failures so far
    crashed,         \* an unrecovered panic ended the process
    snapshot,        \* last PoolMetrics copy returned by GetMetrics
    ctorPc,          \* NewModelSessionPool: position
    ctorSize,        \* NewModelSessionPool: size after the default is applied
    ctorI,           \* NewModelSessionPool: loop index i
    ctorQueue,       \* pool.sessions of the pool under construction
    ctorClosed,      \* pool.closed of the pool under construction
    ctorChanClosed,  \* close(pool.sessions) has run during construction
    ctorDestroyed,   \* per constructed session: number of Destroy() calls
    ctorBuilt,       \* sessions initSession has returned
    ctorResult,      \* what NewModelSessionPool returned
    ctorLoop,        \* go pool.healthCheck() has been executed
    piPc,            \* per request: position inside detections.ProcessImage
    attempt,         \* ProcessImage: loop variable attempt
    lastErr,         \* ProcessImage: lastErr
    shapeOk,         \* len(model.Output.GetData()) equals the expected size
    innerRuns,       \* calls of processImageInternal made by this request
    waited,          \* durations (ms) of the time.Sleep calls, in order
    piResult,        \* what ProcessImage returned
    respPc,          \* success path of the handler: position
    boxCount,        \* len(boxes) of the boxes ProcessImage returned
    faceCount,       \* handler local faceCount
    response,        \* handler local response (ValidationResponse)
    body,            \* JSON object written by json.NewEncoder(w).Encode
    predictions,     \* processPredictions: confidence plane of the buffer
    jobs,            \* channel jobs: buffered start indices
    jobsClosed,      \* close(jobs) has run
    jobNext,         \* job sender goroutine: loop variable i
    wPc,             \* worker position
    localDetections, \* worker local slice
    results,         \* channel results: buffered slices
    resultsClosed,   \* close(results) has run
    detections,      \* processPredictions: gathered (then sorted) slice
    predPc,          \* processPredictions: position of the calling goroutine
    coords,          \* calculateBBox: coords (cx, cy, w, h)
    origWidth,       \* calculateBBox: origWidth
    origHeight,      \* calculateBBox: origHeight
    corners,         \* calculateBBox: locals x1, y1, x2, y2
    bbox,            \* calculateBBox: the returned [4]int32
    bboxPc,          \* calculateBBox: position
    box1,            \* calculateIOU: box1
    box2,            \* calculateIOU: box2
    iou,             \* calculateIOU(box1, box2) as (numerator, denominator)
    iouSwapped,      \* calculateIOU(box2, box1)
    iouPc,           \* calculateIOU: position
    clDets,          \* clusterBoxes: the detections argument
    medianArea,      \* calculateMedianSize: the median size, squared
    minPoints,       \* clusterBoxes: minPoints
    clusters,        \* dbscan: the returned cluster ids (-1 is noise)
    finalBoxes,      \* processClusters: finalBoxes
    clPc,            \* clusterBoxes: position
    picKind,         \* concrete type of the resized image: RGBA or NRGBA
    pix,             \* img.Pix, Stride = 4 * width
    cpuFlags,        \* useAVX512, useAVX2, useSSE41
    rowAsm,          \* the assembly file the build takes processRowAVX2 from
    prepBuffer,      \* buffer.data of the aligned buffer, float32 bit patterns
    lease,           \* none, leased (after Get) or pooled (after Put)
    puts,            \* calls of bufferPool.Put
    tensorData,      \* dst.GetData(), the session's input tensor
    copyLease,       \* what lease was when copy read the buffer
    rowY,            \* y of the row loops
    prepPc,          \* position in prepareInput
    mainPc,          \* position of main
    sigPc,           \* position of the goroutine that waits for SIGINT / SIGTERM
    srvClosed,       \* srv.Shutdown was called
    deadline,        \* the 30 s of the shutdown context have elapsed
    caller,          \* who called Destroy, per destroyer: none, main or signal
    envDestroyed,    \* calls of ort.DestroyEnvironment
    dbPoints,        \* points
    dbArea,          \* square of the median box size, from which eps comes
    dbMinPts,        \* minPoints
    dbClusters,      \* clusters, -1 for noise
    dbI,             \* i of the loop in dbscan
    dbNeighbors,     \* neighbors inside expandCluster
    dbK,             \* i of the loop in expandCluster
    dbCurrent,       \* currentCluster
    dbPc,            \* position in dbscan
    rpFile,          \* which of the two row-parallel routines runs
    rpHeight,        \* rows of the input
    rpWorkers,       \* numWorkers
    rpSpawned,       \* worker goroutines started so far (w of the loop)
    rpRow,           \* y of each worker goroutine
    rpEnd,           \* end of each worker goroutine
    rpDone,          \* workers whose wg.Done() has run
    rpWriters,       \* for each buffer index, the workers that wrote it, in order
    rpPc             \* position of the calling goroutine

poolVars == <<sessions, chanClosed, closed, mu, lastErrors, closeCount,
              destroyCnt, built, initFailures, crashed>>
metricVars == <<metricsMu, inUse, totalAcquired, totalReleased,
                acquireFailures>>
handlerVars == <<pc, sess, acqErr, cancelled, timerFired, resp, acquired,
                 relCalls, returnedTo, hpanic>>
healthVars == <<hcPc, hcCount, hcI, hcSess>>
snapVars == <<snapshot>>
\* NewModelSessionPool's own state while it constructs a pool
ctorVars == <<ctorPc, ctorSize, ctorI, ctorQueue, ctorClosed, ctorChanClosed,
              ctorDestroyed, ctorBuilt, ctorResult, ctorLoop>>
\* detections.ProcessImage as called by a request
pipeVars == <<piPc, attempt, lastErr, shapeOk, innerRuns, waited, piResult>>
\* state outside the running pool and its request handlers
\* the success path of handleValidateFace for one request
respVars == <<respPc, boxCount, faceCount, response, body>>
\* one call of processPredictions with its goroutines
predVars == <<predictions, jobs, jobsClosed, jobNext, wPc, localDetections,
              results, resultsClosed, detections, predPc>>
\* one call of calculateBBox
bboxVars == <<coords, origWidth, origHeight, corners, bbox, bboxPc>>
\* one call of calculateIOU, in both argument orders
iouVars == <<box1, box2, iou, iouSwapped, iouPc>>
\* one call of clusterBoxes, and the response built from its result
clusterVars == <<clDets, medianArea, minPoints, clusters, finalBoxes, clPc>>
\* prepareInput: one image turned into the session's input tensor
prepVars == <<picKind, pix, cpuFlags, rowAsm, prepBuffer, lease, puts,
              tensorData, copyLease, rowY, prepPc>>
\* main after start-up: ListenAndServe, the signal goroutine, the deferred calls
mainVars == <<mainPc, sigPc, srvClosed, deadline, caller, envDestroyed>>
\* dbscan taken one loop iteration at a time
dbVars == <<dbPoints, dbArea, dbMinPts, dbClusters, dbI, dbNeighbors, dbK,
            dbCurrent, dbPc>>
\* processParallel and the older prepareInput: rows handed to worker goroutines
rowVars == <<rpFile, rpHeight, rpWorkers, rpSpawned, rpRow, rpEnd, rpDone,
             rpWriters, rpPc>>
\* the parts added after calculateBBox, each a tuple of its own
lateVars == <<iouVars, clusterVars, prepVars, mainVars, dbVars, rowVars>>
\* for each of these parts, the tuples of the others
besidesIou == <<clusterVars, prepVars, mainVars, dbVars, rowVars>>
besidesCluster == <<iouVars, prepVars, mainVars, dbVars, rowVars>>
besidesPrep == <<iouVars, clusterVars, mainVars, dbVars, rowVars>>
besidesMain == <<iouVars, clusterVars, prepVars, dbVars, rowVars>>
besidesDb == <<iouVars, clusterVars, prepVars, mainVars, rowVars>>
besidesRow == <<iouVars, clusterVars, prepVars, mainVars, dbVars>>
restVars == <<ctorVars, pipeVars, respVars, predVars, bboxVars, lateVars>>
vars == <<poolVars, metricVars, handlerVars, healthVars, dpc, snapVars,
          restVars>>

\* ------------------------------------------------------------ channel ops
\* value delivered by <-ch: the head, or the zero value when closed and empty
RecvValue(q) == IF Len(q) > 0 THEN Head(q) ELSE Nil
\* a receive that leaves the delivered session in the buffer
RecvRestKeepHead(q) == q
\* buffer left behind by <-ch
RecvRest(q) == IF Len(q) > 0 THEN Tail(q) ELSE q
\* <-ch can proceed: something is buffered, or the channel is closed
CanRecv(q, isClosed) == Len(q) > 0 \/ isClosed
\* a send that loses the session
ChanSendDrop(q, s) == q
\* buffer after ch <- s
ChanSend(q, s) == Append(q, s)
\* ch <- s can proceed without panicking: there is room in the buffer
CanSend(q) == Len(q) < PoolSize

\* PoolMetrics value copied by GetMetrics
MetricsValue == [inUse |-> inUse, totalAcquired |-> totalAcquired,
                 totalReleased |-> totalReleased,
                 acquireFailures |-> acquireFailures]

\* a recordError that never drops the oldest entry
RecordErrorKeepAll(errs, e) == Append(errs, e)
\* recordError: append, keep the last 10
RecordError(errs, e) ==
    LET a == Append(errs, e)
    IN IF Len(a) > MaxLastErrors THEN Tail(a) ELSE a

\* ------------------------------------------------------------------ Init
\* NewModelSessionPool has returned the pool: every session was built and
\* queued, nothing was destroyed, the health-check goroutine was started
CtorReturned ==
    /\ ctorPc = "returned"
    /\ ctorSize = PoolSize
    /\ ctorI = PoolSize
    /\ ctorQueue = [i \in 1..PoolSize |-> i]
    /\ ctorClosed = FALSE
    /\ ctorChanClosed = FALSE
    /\ ctorDestroyed = [s \in CtorIds |-> 0]
    /\ ctorBuilt = PoolSize
    /\ ctorResult = "pool"
    /\ ctorLoop = TRUE

\* no request has entered detections.ProcessImage
PipeIdle ==
    /\ piPc = [h \in Handlers |-> "none"]
    /\ attempt = [h \in Handlers |-> 0]
    /\ lastErr = [h \in Handlers |-> "none"]
    /\ shapeOk = [h \in Handlers |-> TRUE]
    /\ innerRuns = [h \in Handlers |-> 0]
    /\ waited = [h \in Handlers |-> <<>>]
    /\ piResult = [h \in Handlers |-> "none"]

\* no request is on the success path
RespIdle ==
    /\ respPc = "none"
    /\ boxCount = 0
    /\ faceCount = 0
    /\ response = NoResponse
    /\ body = NoResponse

\* processPredictions is not running
PredIdle ==
    /\ predictions = [i \in Cells |-> 0]
    /\ jobs = <<>>
    /\ jobsClosed = FALSE
    /\ jobNext = 0
    /\ wPc = [w \in Workers |-> "none"]
    /\ localDetections = [w \in Workers |-> <<>>]
    /\ results = <<>>
    /\ resultsClosed = FALSE
    /\ detections = <<>>
    /\ predPc = "none"

\* calculateBBox is not running
BBoxIdle ==
    /\ coords = <<0, 0, 0, 0>>
    /\ origWidth = 0
    /\ origHeight = 0
    /\ corners = <<0, 0, 0, 0>>
    /\ bbox = <<0, 0, 0, 0>>
    /\ bboxPc = "none"

\* calculateIOU is not running
IouIdle ==
    /\ box1 = <<0, 0, 0, 0>>
    /\ box2 = <<0, 0, 0, 0>>
    /\ iou = <<0, 1>>
    /\ iouSwapped = <<0, 1>>
    /\ iouPc = "none"

\* clusterBoxes is not running
ClusterIdle ==
    /\ clDets = <<>>
    /\ medianArea = 0
    /\ minPoints = 0
    /\ clusters = <<>>
    /\ finalBoxes = <<>>
    /\ clPc = "none"

\* prepareInput is not running
PrepIdle ==
    /\ picKind = "RGBA"
    /\ pix = <<>>
    /\ cpuFlags = [AVX512 |-> FALSE, AVX2 |-> FALSE, SSE41 |-> FALSE]
    /\ rowAsm = "simd.go"
    /\ prepBuffer = <<>>
    /\ lease = "none"
    /\ puts = 0
    /\ tensorData = <<>>
    /\ copyLease = "none"
    /\ rowY = 0
    /\ prepPc = "none"

\* main is not part of the run: nothing gates the requests or Destroy
MainIdle ==
    /\ mainPc = "none"
    /\ sigPc = "none"
    /\ srvClosed = FALSE
    /\ deadline = FALSE
    /\ caller = [d \in Destroyers |-> "none"]
    /\ envDestroyed = 0

\* dbscan is not running step by step
DbscanIdle ==
    /\ dbPoints = <<>>
    /\ dbArea = 0
    /\ dbMinPts = 0
    /\ dbClusters = <<>>
    /\ dbI = 0
    /\ dbNeighbors = <<>>
    /\ dbK = 0
    /\ dbCurrent = 0
    /\ dbPc = "none"

\* no row-parallel preprocessing is running
RowsIdle ==
    /\ rpFile = "none"
    /\ rpHeight = 0
    /\ rpWorkers = 0
    /\ rpSpawned = 0
    /\ rpRow = <<>>
    /\ rpEnd = <<>>
    /\ rpDone = {}
    /\ rpWriters = <<>>
    /\ rpPc = "none"

\* the pool NewModelSessionPool returns: size sessions queued, no request yet
PoolInit ==
    /\ sessions = [i \in 1..PoolSize |-> i]
    /\ chanClosed = FALSE
    /\ closed = FALSE
    /\ mu = Free
    /\ metricsMu = FALSE
    /\ inUse = 0 /\ totalAcquired = 0 /\ totalReleased = 0
    /\ acquireFailures = 0
    /\ lastErrors = <<>>
    /\ pc = [h \in Handlers |-> "idle"]
    /\ sess = [h \in Handlers |-> Nil]
    /\ acqErr = [h \in Handlers |-> "none"]
    /\ cancelled = [h \in Handlers |-> FALSE]
    /\ timerFired = [h \in Handlers |-> FALSE]
    /\ resp = [h \in Handlers |-> "none"]
    /\ acquired = [h \in Handlers |-> FALSE]
    /\ relCalls = [h \in Handlers |-> 0]
    /\ returnedTo = [h \in Handlers |-> "none"]
    /\ hpanic = [h \in Handlers |-> FALSE]
    /\ hcPc = "wait" /\ hcCount = 0 /\ hcI = 0 /\ hcSess = Nil
    /\ dpc = [d \in Destroyers |-> "idle"]
    /\ closeCount = 0
    /\ destroyCnt = [s \in SessionIds |-> 0]
    /\ built = PoolSize
    /\ initFailures = 0
    /\ crashed = FALSE
    /\ snapshot = NoSnapshot

\* the service after start-up
Init ==
    /\ PoolInit
    /\ CtorReturned
    /\ PipeIdle
    /\ RespIdle
    /\ PredIdle
    /\ BBoxIdle
    /\ IouIdle
    /\ ClusterIdle
    /\ PrepIdle
    /\ MainIdle
    /\ DbscanIdle
    /\ RowsIdle

\* --------------------------------------------------------------- handlers
\* pool fields a request goroutine never writes outside the channel
poolRest == <<chanClosed, closed, mu, lastErrors, closeCount, built,
              initFailures, crashed>>
\* everything that belongs to the other goroutines
others == <<healthVars, dpc, snapVars, restVars>>
\* request locals that only Acquire's success and Release write
leaseLog == <<acquired, relCalls, returnedTo>>

\* handleValidateFace is entered: handleJSONRequest / handleMultipartRequest /
\* handleRawRequest and the invalid_request branch
HandleParse(h) ==
    /\ ~crashed /\ pc[h] = "idle"
    /\ \E ok \in BOOLEAN :
         IF ok THEN /\ pc' = [pc EXCEPT ![h] = "decode"]
                    /\ UNCHANGED resp
         ELSE /\ resp' = [resp EXCEPT ![h] = "400 invalid_request"]
              /\ pc' = [pc EXCEPT ![h] = "done"]
    /\ UNCHANGED <<acquired, sessions, destroyCnt, poolRest, metricVars, sess, acqErr,
                   cancelled, timerFired, relCalls, returnedTo, hpanic,
                   others>>

\* decodeImage and the invalid_image branch
HandleDecode(h) ==
    /\ ~crashed /\ pc[h] = "decode"
    /\ \E ok \in BOOLEAN :
         IF ok THEN /\ pc' = [pc EXCEPT ![h] = "acquire"]
                    /\ UNCHANGED resp
         ELSE /\ resp' = [resp EXCEPT ![h] = "400 invalid_image"]
              /\ pc' = [pc EXCEPT ![h] = "done"]
    /\ UNCHANGED <<acquired, sessions, destroyCnt, poolRest, metricVars, sess, acqErr,
                   cancelled, timerFired, relCalls, returnedTo, hpanic, others>>

\* the client goes away: r.Context() is cancelled.  The context is read by
\* Acquire's select and by ProcessImage only, so a cancellation is taken at
\* the positions from which one of the two can still observe it.
ClientCancel(h) ==
    /\ ~crashed /\ pc[h] \in {"acquire", "select", "process"}
    /\ ~cancelled[h]
    /\ cancelled' = [cancelled EXCEPT ![h] = TRUE]
    /\ UNCHANGED <<acquired, sessions, destroyCnt, poolRest, metricVars, pc, sess,
                   acqErr, timerFired, resp, relCalls, returnedTo, hpanic, others>>

\* the handler's `if err != nil` after a failed Acquire
AcquireFailed(h, e) ==
    /\ acqErr' = [acqErr EXCEPT ![h] = e]
    /\ resp' = [resp EXCEPT ![h] = "503 session_error"]
    /\ pc' = [pc EXCEPT ![h] = "done"]

\* Acquire, `if p.closed { return nil, error }`
AcquireCheckClosed(h) ==
    /\ ~crashed /\ pc[h] = "acquire"
    /\ IF closed
       THEN AcquireFailed(h, "closed")
       ELSE /\ pc' = [pc EXCEPT ![h] = "select"]
            /\ UNCHANGED <<acqErr, resp>>
    /\ UNCHANGED <<acquired, sessions, destroyCnt, poolRest, metricVars, sess,
                   cancelled, timerFired, relCalls, returnedTo, hpanic, others>>

\* AcquireTimeout elapses while the handler is in the select
TimerFire(h) ==
    /\ ~crashed /\ pc[h] = "select" /\ ~timerFired[h]
    /\ timerFired' = [timerFired EXCEPT ![h] = TRUE]
    /\ UNCHANGED <<acquired, sessions, destroyCnt, poolRest, metricVars, pc, sess,
                   acqErr, cancelled, resp, relCalls, returnedTo, hpanic, others>>

\* select, case session := <-p.sessions
SelectRecv(h) ==
    /\ ~crashed /\ pc[h] = "select"
    /\ CanRecv(sessions, chanClosed)
    /\ sess' = [sess EXCEPT ![h] = RecvValue(sessions)]
    /\ sessions' = RecvRest(sessions)
    /\ timerFired' = [timerFired EXCEPT ![h] = FALSE]
    /\ pc' = [pc EXCEPT ![h] = "acqMetrics"]
    /\ UNCHANGED <<acquired, destroyCnt, poolRest, metricVars, acqErr, cancelled, resp,
                   relCalls, returnedTo, hpanic, others>>

\* p.metrics.mu.Lock(); p.metrics.inUse++
AcquireMetricsInUse(h) ==
    /\ ~crashed /\ pc[h] = "acqMetrics" /\ ~metricsMu
    /\ metricsMu' = TRUE
    /\ inUse' = inUse + 1
    /\ pc' = [pc EXCEPT ![h] = "acqMetrics2"]
    /\ UNCHANGED <<acquired, sessions, destroyCnt, poolRest, totalAcquired,
                   totalReleased, acquireFailures, sess, acqErr, cancelled,
                   timerFired, resp, relCalls, returnedTo, hpanic, others>>

\* p.metrics.totalAcquired++; p.metrics.mu.Unlock(); return session, nil
AcquireMetricsTotal(h) ==
    /\ ~crashed /\ pc[h] = "acqMetrics2" /\ metricsMu
    /\ totalAcquired' = totalAcquired + 1
    /\ metricsMu' = FALSE
    /\ acquired' = [acquired EXCEPT ![h] = TRUE]
    /\ pc' = [pc EXCEPT ![h] = "process"]
    /\ UNCHANGED <<sessions, destroyCnt, poolRest, inUse, totalReleased,
                   acquireFailures, sess, acqErr, cancelled, timerFired, resp,
                   relCalls, returnedTo, hpanic, others>>

\* a timeout branch that forgets the failure counter
SelectTimeoutNoCount(h) ==
    /\ ~crashed /\ pc[h] = "select" /\ timerFired[h] /\ ~metricsMu
    /\ timerFired' = [timerFired EXCEPT ![h] = FALSE]
    /\ AcquireFailed(h, "timeout")
    /\ UNCHANGED <<acquired, sessions, destroyCnt, poolRest, metricVars, sess,
                   cancelled, relCalls, returnedTo, hpanic, others>>

\* select, case <-time.After(AcquireTimeout): acquireFailures++ under the
\* lock, return the timeout error
SelectTimeout(h) ==
    /\ ~crashed /\ pc[h] = "select" /\ timerFired[h] /\ ~metricsMu
    /\ acquireFailures' = acquireFailures + 1
    /\ timerFired' = [timerFired EXCEPT ![h] = FALSE]
    /\ AcquireFailed(h, "timeout")
    /\ UNCHANGED <<acquired, sessions, destroyCnt, poolRest, metricsMu, inUse,
                   totalAcquired, totalReleased, sess, cancelled, relCalls,
                   returnedTo, hpanic, others>>

\* a cancellation branch that counts the cancellation as an acquire failure
SelectCancelCounted(h) ==
    /\ ~crashed /\ pc[h] = "select" /\ cancelled[h]
    /\ acquireFailures' = acquireFailures + 1
    /\ timerFired' = [timerFired EXCEPT ![h] = FALSE]
    /\ AcquireFailed(h, "cancelled")
    /\ UNCHANGED <<acquired, sessions, destroyCnt, poolRest, metricsMu, inUse,
                   totalAcquired, totalReleased, sess, cancelled, relCalls,
                   returnedTo, hpanic, others>>

\* select, case <-ctx.Done(): return nil, ctx.Err()
SelectCancel(h) ==
    /\ ~crashed /\ pc[h] = "select" /\ cancelled[h]
    /\ timerFired' = [timerFired EXCEPT ![h] = FALSE]
    /\ AcquireFailed(h, "cancelled")
    /\ UNCHANGED <<acquired, sessions, destroyCnt, poolRest, metricVars, sess,
                   cancelled, relCalls, returnedTo, hpanic, others>>

\* a handler that calls Release at the end of the success path instead of
\* deferring it: the processing_error branch returns without releasing
HandleProcessNoDefer(h) ==
    /\ ~crashed /\ pc[h] = "process"
    /\ \E outcome \in {"ok", "error", "cancelled", "panic"} :
         /\ outcome \in {"ok", "error"} => sess[h] # Nil
         /\ outcome = "cancelled" => cancelled[h]
         /\ outcome = "panic" => sess[h] = Nil
         /\ resp' = [resp EXCEPT ![h] =
               CASE outcome = "ok" -> "200"
                 [] outcome = "panic" -> "none"
                 [] OTHER -> "500 processing_error"]
         /\ hpanic' = [hpanic EXCEPT ![h] = (outcome = "panic")]
         /\ pc' = [pc EXCEPT ![h] = IF outcome = "ok" THEN "release" ELSE "done"]
    /\ UNCHANGED <<acquired, sessions, destroyCnt, poolRest, metricVars, sess,
                   acqErr, cancelled, timerFired, relCalls, returnedTo, others>>

\* detections.ProcessImage and the response that follows it; the deferred
\* Release runs next on every path.  With a nil session prepareInput
\* dereferences nil: the handler panics (net/http recovers it) and the
\* deferred Release still runs.  A cancelled context makes ProcessImage
\* return ctx.Err() before it touches the session.
HandleProcess(h) ==
    /\ ~crashed /\ pc[h] = "process"
    /\ \E outcome \in {"ok", "error", "cancelled", "panic"} :
         /\ outcome \in {"ok", "error"} => sess[h] # Nil
         /\ outcome = "cancelled" => cancelled[h]
         /\ outcome = "panic" => sess[h] = Nil
         /\ resp' = [resp EXCEPT ![h] =
               CASE outcome = "ok" -> "200"
                 [] outcome = "panic" -> "none"
                 [] OTHER -> "500 processing_error"]
         /\ hpanic' = [hpanic EXCEPT ![h] = (outcome = "panic")]
    /\ pc' = [pc EXCEPT ![h] = "release"]
    /\ UNCHANGED <<acquired, sessions, destroyCnt, poolRest, metricVars, sess, acqErr,
                   cancelled, timerFired, relCalls, returnedTo, others>>

\* Release, `if p.closed { session.Destroy(); return }`; Destroy on a nil
\* session dereferences nil
ReleaseCheckClosed(h) ==
    /\ ~crashed /\ pc[h] = "release"
    /\ relCalls' = [relCalls EXCEPT ![h] = @ + 1]
    /\ IF closed
       THEN /\ IF sess[h] = Nil
               THEN /\ hpanic' = [hpanic EXCEPT ![h] = TRUE]
                    /\ returnedTo' = [returnedTo EXCEPT ![h] = "panic"]
                    /\ UNCHANGED destroyCnt
               ELSE /\ destroyCnt' = [destroyCnt EXCEPT ![sess[h]] = @ + 1]
                    /\ returnedTo' = [returnedTo EXCEPT ![h] = "destroyed"]
                    /\ UNCHANGED hpanic
            /\ pc' = [pc EXCEPT ![h] = "done"]
       ELSE /\ pc' = [pc EXCEPT ![h] = "relMetrics"]
            /\ UNCHANGED <<destroyCnt, returnedTo, hpanic>>
    /\ UNCHANGED <<acquired, sessions, poolRest, metricVars, sess, acqErr, cancelled,
                   timerFired, resp, others>>

\* p.metrics.mu.Lock(); p.metrics.inUse--
ReleaseMetricsInUse(h) ==
    /\ ~crashed /\ pc[h] = "relMetrics" /\ ~metricsMu
    /\ metricsMu' = TRUE
    /\ inUse' = inUse - 1
    /\ pc' = [pc EXCEPT ![h] = "relMetrics2"]
    /\ UNCHANGED <<acquired, sessions, destroyCnt, poolRest, totalAcquired,
                   totalReleased, acquireFailures, sess, acqErr, cancelled,
                   timerFired, resp, relCalls, returnedTo, hpanic, others>>

\* p.metrics.totalReleased++; p.metrics.mu.Unlock()
ReleaseMetricsTotal(h) ==
    /\ ~crashed /\ pc[h] = "relMetrics2" /\ metricsMu
    /\ totalReleased' = totalReleased + 1
    /\ metricsMu' = FALSE
    /\ pc' = [pc EXCEPT ![h] = "relSend"]
    /\ UNCHANGED <<acquired, sessions, destroyCnt, poolRest, inUse, totalAcquired,
                   acquireFailures, sess, acqErr, cancelled, timerFired, resp,
                   relCalls, returnedTo, hpanic, others>>

\* p.sessions <- session: blocks while the buffer is full, panics (recovered
\* by net/http) when the channel has been closed
ReleaseSend(h) ==
    /\ ~crashed /\ pc[h] = "relSend"
    /\ IF chanClosed
       THEN /\ hpanic' = [hpanic EXCEPT ![h] = TRUE]
            /\ returnedTo' = [returnedTo EXCEPT ![h] = "panic"]
            /\ UNCHANGED sessions
       ELSE /\ CanSend(sessions)
            /\ sessions' = ChanSend(sessions, sess[h])
            /\ returnedTo' = [returnedTo EXCEPT ![h] = "queue"]
            /\ UNCHANGED hpanic
    /\ pc' = [pc EXCEPT ![h] = "done"]
    /\ UNCHANGED <<acquired, destroyCnt, poolRest, metricVars, sess, acqErr, cancelled,
                   timerFired, resp, relCalls, others>>

\* a read of the metrics that does not wait for the writer
MetricsReadableUnlocked(writeLocked) == TRUE

\* p.metrics.mu.RLock() succeeds while no writer holds the mutex
MetricsReadable(writeLocked) == ~writeLocked

\* GetMetrics: copy *p.metrics under the read lock
GetMetrics ==
    /\ ~crashed
    /\ MetricsReadable(metricsMu)
    /\ snapshot' = MetricsValue
    /\ UNCHANGED <<poolVars, metricVars, handlerVars, healthVars, dpc,
                   restVars>>

\* ----------------------------------------------------------- health check
\* healthCheck: a tick arrives; `if p.closed { return }`
HealthTick ==
    /\ ~crashed /\ hcPc = "wait"
    /\ hcPc' = IF closed THEN "stopped" ELSE "measure"
    /\ UNCHANGED <<poolVars, metricVars, handlerVars, hcCount, hcI, hcSess,
                   dpc, snapVars, restVars>>

\* currentSize := len(p.sessions) under p.mu, then the call of
\* replenishSessions(p.size - currentSize) when currentSize < p.size
HealthMeasure ==
    /\ ~crashed /\ hcPc = "measure" /\ mu = Free
    /\ IF Len(sessions) < PoolSize
       THEN /\ hcCount' = PoolSize - Len(sessions)
            /\ hcI' = 0
            /\ hcPc' = "replenish"
       ELSE /\ hcPc' = "wait"
            /\ UNCHANGED <<hcCount, hcI>>
    /\ UNCHANGED <<poolVars, metricVars, handlerVars, hcSess, dpc,
                   snapVars, restVars>>

\* position after one iteration of the loop in replenishSessions
AfterIteration(i, count) == IF i + 1 < count THEN "replenish" ELSE "wait"

\* initSession calls made by replenishSessions so far
InitCalls == (built - PoolSize) + initFailures

\* replenishSessions: initSession succeeds or fails; mayBuild and mayFail
\* cap the number of calls
ReplenishInitWithin(mayBuild, mayFail) ==
    /\ ~crashed /\ hcPc = "replenish"
    /\ \/ /\ mayBuild
          /\ built' = built + 1
          /\ hcSess' = built + 1
          /\ hcPc' = "send"
       \/ /\ mayFail
          /\ hcPc' = "record"
          /\ UNCHANGED <<built, hcSess>>
    /\ UNCHANGED <<sessions, chanClosed, closed, mu, lastErrors, closeCount,
                   destroyCnt, initFailures, crashed, metricVars, handlerVars,
                   hcCount, hcI, dpc, snapVars, restVars>>

\* at most MaxInits calls in all
ReplenishInit == ReplenishInitWithin(InitCalls < MaxInits, InitCalls < MaxInits)

\* at most MaxInits sessions built and at most MaxFailures failures
ReplenishInitOften ==
    ReplenishInitWithin(built - PoolSize < MaxInits, initFailures < MaxFailures)

\* recordError under p.mu, then `continue`
ReplenishRecordError ==
    /\ ~crashed /\ hcPc = "record" /\ mu = Free
    /\ initFailures' = initFailures + 1
    /\ lastErrors' = RecordError(lastErrors, initFailures + 1)
    /\ hcI' = hcI + 1
    /\ hcPc' = AfterIteration(hcI, hcCount)
    /\ UNCHANGED <<sessions, chanClosed, closed, mu, closeCount, destroyCnt,
                   built, crashed, metricVars, handlerVars, hcCount, hcSess,
                   dpc, snapVars, restVars>>

\* p.sessions <- session in replenishSessions: blocks while the buffer is
\* full; on a closed channel the panic ends the process
ReplenishSend ==
    /\ ~crashed /\ hcPc = "send"
    /\ IF chanClosed
       THEN /\ crashed' = TRUE
            /\ UNCHANGED <<sessions, hcI, hcPc, hcSess>>
       ELSE /\ CanSend(sessions)
            /\ sessions' = ChanSend(sessions, hcSess)
            /\ hcSess' = Nil
            /\ hcI' = hcI + 1
            /\ hcPc' = AfterIteration(hcI, hcCount)
            /\ UNCHANGED crashed
    /\ UNCHANGED <<chanClosed, closed, mu, lastErrors, closeCount, destroyCnt,
                   built, initFailures, metricVars, handlerVars, hcCount,
                   dpc, snapVars, restVars>>

\* ---------------------------------------------------------------- Destroy
\* a Destroy without the closed check
DestroyNeverClosed(isClosed) == FALSE

\* `if p.closed { return }` as Destroy evaluates it under p.mu
DestroyAlreadyClosed(isClosed) == isClosed

\* p.mu.Lock(); if p.closed { return }; p.closed = true
DestroyBegin(d) ==
    /\ ~crashed /\ dpc[d] = "idle" /\ mu = Free
    /\ d = "second" => dpc["first"] # "idle"
    /\ IF DestroyAlreadyClosed(closed)
       THEN /\ dpc' = [dpc EXCEPT ![d] = "returned"]
            /\ UNCHANGED <<mu, closed>>
       ELSE /\ mu' = d
            /\ closed' = TRUE
            /\ dpc' = [dpc EXCEPT ![d] = "close"]
    /\ UNCHANGED <<sessions, chanClosed, lastErrors, closeCount, destroyCnt,
                   built, initFailures, crashed, metricVars, handlerVars,
                   healthVars, snapVars, restVars>>

\* close(p.sessions); closing a closed channel panics
DestroyClose(d) ==
    /\ ~crashed /\ dpc[d] = "close"
    /\ closeCount' = closeCount + 1
    /\ crashed' = chanClosed
    /\ chanClosed' = TRUE
    /\ dpc' = [dpc EXCEPT ![d] = "range"]
    /\ UNCHANGED <<sessions, closed, mu, lastErrors, destroyCnt, built,
                   initFailures, metricVars, handlerVars, healthVars,
                   snapVars, restVars>>

\* for session := range p.sessions { session.Destroy() }: one iteration
DestroyRange(d) ==
    /\ ~crashed /\ dpc[d] = "range" /\ Len(sessions) > 0
    /\ destroyCnt' = [destroyCnt EXCEPT ![RecvValue(sessions)] = @ + 1]
    /\ sessions' = RecvRest(sessions)
    /\ UNCHANGED <<chanClosed, closed, mu, lastErrors, closeCount, built,
                   initFailures, crashed, metricVars, handlerVars, healthVars,
                   dpc, snapVars, restVars>>

\* the range loop ends on the closed, empty channel; deferred p.mu.Unlock()
DestroyReturn(d) ==
    /\ ~crashed /\ dpc[d] = "range" /\ Len(sessions) = 0
    /\ mu' = Free
    /\ dpc' = [dpc EXCEPT ![d] = "returned"]
    /\ UNCHANGED <<sessions, chanClosed, closed, lastErrors, closeCount,
                   destroyCnt, built, initFailures, crashed, metricVars,
                   handlerVars, healthVars, snapVars, restVars>>

\* ------------------------------------------------- NewModelSessionPool
\* the call is made with some size argument; `if size <= 0` picks the
\* default, the pool struct is allocated with an empty channel
CtorStart ==
    /\ ctorPc = "loop"
    /\ \E size \in NewSizes : ctorSize = NewPoolSize(size)
    /\ ctorI = 0
    /\ ctorQueue = <<>>
    /\ ctorClosed = FALSE
    /\ ctorChanClosed = FALSE
    /\ ctorDestroyed = [s \in CtorIds |-> 0]
    /\ ctorBuilt = 0
    /\ ctorResult = "none"
    /\ ctorLoop = FALSE

\* everything NewModelSessionPool does not touch: the pool in service
inService == <<poolVars, metricVars, handlerVars, healthVars, dpc, snapVars,
               pipeVars, respVars, predVars, bboxVars, lateVars>>

\* a constructor that returns the error without calling pool.Destroy()
CtorInitSessionNoDestroy ==
    /\ ctorPc = "loop" /\ ctorI < ctorSize
    /\ \/ /\ ctorBuilt' = ctorBuilt + 1
          /\ ctorPc' = "send"
       \/ /\ ctorPc' = "fail"
          /\ UNCHANGED ctorBuilt
    /\ UNCHANGED <<ctorSize, ctorI, ctorQueue, ctorClosed, ctorChanClosed,
                   ctorDestroyed, ctorResult, ctorLoop, inService>>

\* for i := 0; i < size; i++ { session, err := initSession(modelPath) ... }
CtorInitSession ==
    /\ ctorPc = "loop" /\ ctorI < ctorSize
    /\ \/ /\ ctorBuilt' = ctorBuilt + 1
          /\ ctorPc' = "send"
       \/ /\ ctorPc' = "destroy"
          /\ UNCHANGED ctorBuilt
    /\ UNCHANGED <<ctorSize, ctorI, ctorQueue, ctorClosed, ctorChanClosed,
                   ctorDestroyed, ctorResult, ctorLoop, inService>>

\* pool.sessions <- session; i++
CtorSend ==
    /\ ctorPc = "send" /\ Len(ctorQueue) < ctorSize
    /\ ctorQueue' = ChanSend(ctorQueue, ctorBuilt)
    /\ ctorI' = ctorI + 1
    /\ ctorPc' = "loop"
    /\ UNCHANGED <<ctorSize, ctorClosed, ctorChanClosed, ctorDestroyed,
                   ctorBuilt, ctorResult, ctorLoop, inService>>

\* pool.Destroy() on the failure path: p.mu.Lock(); the closed check;
\* p.closed = true
CtorDestroyBegin ==
    /\ ctorPc = "destroy"
    /\ IF DestroyAlreadyClosed(ctorClosed)
       THEN /\ ctorPc' = "fail"
            /\ UNCHANGED ctorClosed
       ELSE /\ ctorClosed' = TRUE
            /\ ctorPc' = "close"
    /\ UNCHANGED <<ctorSize, ctorI, ctorQueue, ctorChanClosed, ctorDestroyed,
                   ctorBuilt, ctorResult, ctorLoop, inService>>

\* close(p.sessions)
CtorDestroyClose ==
    /\ ctorPc = "close"
    /\ ctorChanClosed' = TRUE
    /\ ctorPc' = "range"
    /\ UNCHANGED <<ctorSize, ctorI, ctorQueue, ctorClosed, ctorDestroyed,
                   ctorBuilt, ctorResult, ctorLoop, inService>>

\* for session := range p.sessions { session.Destroy() }: one iteration
CtorDestroyRange ==
    /\ ctorPc = "range" /\ Len(ctorQueue) > 0
    /\ ctorDestroyed' =
          [ctorDestroyed EXCEPT ![RecvValue(ctorQueue)] = @ + 1]
    /\ ctorQueue' = RecvRest(ctorQueue)
    /\ UNCHANGED <<ctorPc, ctorSize, ctorI, ctorClosed, ctorChanClosed,
                   ctorBuilt, ctorResult, ctorLoop, inService>>

\* the range loop ends on the closed, empty channel and Destroy returns
CtorDestroyReturn ==
    /\ ctorPc = "range" /\ Len(ctorQueue) = 0
    /\ ctorPc' = "fail"
    /\ UNCHANGED <<ctorSize, ctorI, ctorQueue, ctorClosed, ctorChanClosed,
                   ctorDestroyed, ctorBuilt, ctorResult, ctorLoop, inService>>

\* return nil, fmt.Errorf("failed to initialize session %d: %w", i, err)
CtorReturnError ==
    /\ ctorPc = "fail"
    /\ ctorResult' = "error"
    /\ ctorPc' = "returned"
    /\ UNCHANGED <<ctorSize, ctorI, ctorQueue, ctorClosed, ctorChanClosed,
                   ctorDestroyed, ctorBuilt, ctorLoop, inService>>

\* the loop is over: go pool.healthCheck()
CtorStartHealthCheck ==
    /\ ctorPc = "loop" /\ ctorI >= ctorSize
    /\ ctorLoop' = TRUE
    /\ ctorPc' = "started"
    /\ UNCHANGED <<ctorSize, ctorI, ctorQueue, ctorClosed, ctorChanClosed,
                   ctorDestroyed, ctorBuilt, ctorResult, inService>>

\* return pool, nil
CtorReturnPool ==
    /\ ctorPc = "started"
    /\ ctorResult' = "pool"
    /\ ctorPc' = "returned"
    /\ UNCHANGED <<ctorSize, ctorI, ctorQueue, ctorClosed, ctorChanClosed,
                   ctorDestroyed, ctorBuilt, ctorLoop, inService>>

\* ------------------------------------------------ detections.ProcessImage
\* what a step inside ProcessImage leaves alone outside the request
pipeFrame == <<poolVars, metricVars, healthVars, dpc, snapVars, ctorVars,
               respVars, predVars, bboxVars, lateVars>>

\* the handler calls detections.ProcessImage(ctx, img, session, timings):
\* var lastErr error; attempt := 1.  The length of the session's output
\* tensor was fixed when the session was built.
ProcessBegin(h) ==
    /\ ~crashed /\ pc[h] = "process" /\ piPc[h] = "none"
    /\ piPc' = [piPc EXCEPT ![h] = "check"]
    /\ attempt' = [attempt EXCEPT ![h] = 1]
    /\ \E ok \in BOOLEAN : shapeOk' = [shapeOk EXCEPT ![h] = ok]
    /\ UNCHANGED <<lastErr, innerRuns, waited, piResult, handlerVars,
                   pipeFrame>>

\* select { case <-ctx.Done(): return nil, ctx.Err(); default: ... }
PipeCheck(h) ==
    /\ ~crashed /\ piPc[h] = "check"
    /\ IF cancelled[h]
       THEN /\ piResult' = [piResult EXCEPT ![h] = "cancelled"]
            /\ piPc' = [piPc EXCEPT ![h] = "ret"]
       ELSE /\ piPc' = [piPc EXCEPT ![h] = "preprocess"]
            /\ UNCHANGED piResult
    /\ UNCHANGED <<attempt, lastErr, shapeOk, innerRuns, waited,
                   handlerVars, pipeFrame>>

\* processImageInternal is entered: imaging.Resize and prepareInput, which
\* cannot fail; with a nil session model.Input dereferences nil
PipePreprocess(h) ==
    /\ ~crashed /\ piPc[h] = "preprocess"
    /\ innerRuns' = [innerRuns EXCEPT ![h] = @ + 1]
    /\ IF sess[h] = Nil
       THEN /\ piResult' = [piResult EXCEPT ![h] = "panic"]
            /\ piPc' = [piPc EXCEPT ![h] = "ret"]
       ELSE /\ piPc' = [piPc EXCEPT ![h] = "run"]
            /\ UNCHANGED piResult
    /\ UNCHANGED <<attempt, lastErr, shapeOk, waited, handlerVars,
                   pipeFrame>>

\* processImageInternal returned err: lastErr = err, then
\* `if attempt < RetryAttempts { time.Sleep(...); continue }`; after the
\* last attempt the loop ends and lastErr is returned
PipeFail(h, e) ==
    /\ lastErr' = [lastErr EXCEPT ![h] = e]
    /\ IF attempt[h] < RetryAttempts
       THEN /\ piPc' = [piPc EXCEPT ![h] = "sleep"]
            /\ UNCHANGED piResult
       ELSE /\ piPc' = [piPc EXCEPT ![h] = "ret"]
            /\ piResult' = [piResult EXCEPT ![h] = e]

\* an inner pipeline that clusters the raw output without postprocessing
PipeRunSkipPostprocess(h) ==
    /\ ~crashed /\ piPc[h] = "run"
    /\ \/ /\ piPc' = [piPc EXCEPT ![h] = "cluster"]
          /\ UNCHANGED <<lastErr, piResult>>
       \/ PipeFail(h, "inference")
    /\ UNCHANGED <<attempt, shapeOk, innerRuns, waited, handlerVars,
                   pipeFrame>>

\* err = model.Session.Run()
PipeRun(h) ==
    /\ ~crashed /\ piPc[h] = "run"
    /\ \/ /\ piPc' = [piPc EXCEPT ![h] = "postprocess"]
          /\ UNCHANGED <<lastErr, piResult>>
       \/ PipeFail(h, "inference")
    /\ UNCHANGED <<attempt, shapeOk, innerRuns, waited, handlerVars,
                   pipeFrame>>

\* processPredictions: the length check, then the detections
PipePostprocess(h) ==
    /\ ~crashed /\ piPc[h] = "postprocess"
    /\ IF shapeOk[h]
       THEN /\ piPc' = [piPc EXCEPT ![h] = "cluster"]
            /\ UNCHANGED <<lastErr, piResult>>
       ELSE PipeFail(h, "shape")
    /\ UNCHANGED <<attempt, shapeOk, innerRuns, waited, handlerVars,
                   pipeFrame>>

\* clustering.ClusterBoxes; processImageInternal returns boxes, nil and
\* ProcessImage returns them
PipeCluster(h) ==
    /\ ~crashed /\ piPc[h] = "cluster"
    /\ piResult' = [piResult EXCEPT ![h] = "boxes"]
    /\ piPc' = [piPc EXCEPT ![h] = "ret"]
    /\ UNCHANGED <<attempt, lastErr, shapeOk, innerRuns, waited,
                   handlerVars, pipeFrame>>

\* a back-off that does not grow with the attempt
BackoffConstant(a) == RetryDelayMs

\* time.Duration(attempt) * RetryDelayMs * time.Millisecond, in ms
Backoff(a) == a * RetryDelayMs

\* time.Sleep(...); continue: attempt++ and back to the top of the loop
PipeSleep(h) ==
    /\ ~crashed /\ piPc[h] = "sleep"
    /\ waited' = [waited EXCEPT ![h] = Append(@, Backoff(attempt[h]))]
    /\ attempt' = [attempt EXCEPT ![h] = @ + 1]
    /\ piPc' = [piPc EXCEPT ![h] = "check"]
    /\ UNCHANGED <<lastErr, shapeOk, innerRuns, piResult, handlerVars,
                   pipeFrame>>

\* a handler that writes the success body whatever ProcessImage returned
HandleProcessResultIgnoreErr(h) ==
    /\ ~crashed /\ pc[h] = "process" /\ piPc[h] = "ret"
    /\ resp' = [resp EXCEPT ![h] =
          IF piResult[h] = "panic" THEN "none" ELSE "200"]
    /\ hpanic' = [hpanic EXCEPT ![h] = (piResult[h] = "panic")]
    /\ pc' = [pc EXCEPT ![h] = "release"]
    /\ piPc' = [piPc EXCEPT ![h] = "returned"]
    /\ UNCHANGED <<sess, acqErr, cancelled, timerFired, acquired, relCalls,
                   returnedTo, attempt, lastErr, shapeOk, innerRuns, waited,
                   piResult, pipeFrame>>

\* back in the handler: `if err != nil` sends processing_error, otherwise the
\* 200 response is written; a panic leaves no response.  The deferred
\* Release runs next on every path.
HandleProcessResult(h) ==
    /\ ~crashed /\ pc[h] = "process" /\ piPc[h] = "ret"
    /\ resp' = [resp EXCEPT ![h] =
          CASE piResult[h] = "boxes" -> "200"
            [] piResult[h] = "panic" -> "none"
            [] OTHER -> "500 processing_error"]
    /\ hpanic' = [hpanic EXCEPT ![h] = (piResult[h] = "panic")]
    /\ pc' = [pc EXCEPT ![h] = "release"]
    /\ piPc' = [piPc EXCEPT ![h] = "returned"]
    /\ UNCHANGED <<sess, acqErr, cancelled, timerFired, acquired, relCalls,
                   returnedTo, attempt, lastErr, shapeOk, innerRuns, waited,
                   piResult, pipeFrame>>

\* ------------------------------------------- handleValidateFace, success
\* getFaceValidationMessage
getFaceValidationMessage(n) ==
    CASE n = 0 -> "No faces detected"
      [] n = 1 -> "Valid single face detected"
      [] OTHER -> "Multiple faces detected: " \o ToString(n)

\* what the success path leaves alone
respFrame == <<poolVars, metricVars, handlerVars, healthVars, dpc, snapVars,
               ctorVars, pipeVars, predVars, bboxVars, lateVars>>

\* ProcessImage has returned boxes, nil
RespStart ==
    /\ respPc = "count"
    /\ boxCount \in 0..MaxBoxes
    /\ faceCount = 0
    /\ response = NoResponse
    /\ body = NoResponse

\* faceCount := len(boxes)
RespCount ==
    /\ respPc = "count"
    /\ faceCount' = boxCount
    /\ respPc' = "build"
    /\ UNCHANGED <<boxCount, response, body, respFrame>>

\* response := ValidationResponse{IsValid: faceCount == 1,
\*     FaceCount: faceCount, Message: getFaceValidationMessage(faceCount)}
RespBuild ==
    /\ respPc = "build"
    /\ response' = [IsValid |-> (faceCount = 1), FaceCount |-> faceCount,
                    Message |-> getFaceValidationMessage(faceCount)]
    /\ respPc' = "encode"
    /\ UNCHANGED <<boxCount, faceCount, body, respFrame>>

\* json.NewEncoder(w).Encode(response): the struct tags name the fields
RespEncode ==
    /\ respPc = "encode"
    /\ body' = [is_valid |-> response.IsValid,
                face_count |-> response.FaceCount,
                message |-> response.Message]
    /\ respPc' = "written"
    /\ UNCHANGED <<boxCount, faceCount, response, respFrame>>

\* ---------------------------------------------------- processPredictions
\* what processPredictions and its goroutines leave alone
predFrame == <<poolVars, metricVars, handlerVars, healthVars, dpc, snapVars,
               ctorVars, pipeVars, respVars, bboxVars, lateVars>>

\* the length check has passed; the workers, the job sender and the closer
\* have been started and the caller ranges over results
PredStart ==
    /\ predictions \in [Cells -> Confidences]
    /\ jobs = <<>>
    /\ jobsClosed = FALSE
    /\ jobNext = 0
    /\ wPc = [w \in Workers |-> "recv"]
    /\ localDetections = [w \in Workers |-> <<>>]
    /\ results = <<>>
    /\ resultsClosed = FALSE
    /\ detections = <<>>
    /\ predPc = "gather"

\* a comparison that drops the cells exactly at the threshold
SurvivesStrict(confidence) == confidence > ConfThreshold

\* if confidence >= threshold
Survives(confidence) == confidence >= ConfThreshold

\* end := start + chunkSize; if end > numPredictions { end = numPredictions }
ChunkEnd(start) ==
    IF start + ChunkSize > NumPredictions THEN NumPredictions
    ELSE start + ChunkSize

\* for i := start; i < end; i++ { ... append(localDetections, ...) }: the
\* detections of the cells start..end-1 appended to loc in index order
RECURSIVE ProcessChunk(_, _, _)
ProcessChunk(loc, i, end) ==
    IF i >= end THEN loc
    ELSE ProcessChunk(
           IF Survives(predictions[i])
           THEN Append(loc, [cell |-> i, Confidence |-> predictions[i]])
           ELSE loc,
           i + 1, end)

\* job sender: for i := 0; i < numPredictions; i += chunkSize { jobs <- i }
JobSend ==
    /\ predPc # "none" /\ ~jobsClosed
    /\ jobNext < NumPredictions
    /\ Len(jobs) < NumWorkers
    /\ jobs' = Append(jobs, jobNext)
    /\ jobNext' = jobNext + ChunkSize
    /\ UNCHANGED <<predictions, jobsClosed, wPc, localDetections, results,
                   resultsClosed, detections, predPc, predFrame>>

\* a job sender that returns without closing jobs
JobCloseMissing ==
    /\ predPc # "none" /\ ~jobsClosed
    /\ jobNext >= NumPredictions
    /\ UNCHANGED <<predictions, jobs, jobsClosed, jobNext, wPc,
                   localDetections, results, resultsClosed, detections,
                   predPc, predFrame>>

\* job sender: close(jobs)
JobClose ==
    /\ predPc # "none" /\ ~jobsClosed
    /\ jobNext >= NumPredictions
    /\ jobsClosed' = TRUE
    /\ UNCHANGED <<predictions, jobs, jobNext, wPc, localDetections, results,
                   resultsClosed, detections, predPc, predFrame>>

\* worker: for start := range jobs { ... } takes one job and scans its chunk
WorkerJob(w) ==
    /\ wPc[w] = "recv" /\ Len(jobs) > 0
    /\ localDetections' = [localDetections EXCEPT ![w] =
          ProcessChunk(@, Head(jobs), ChunkEnd(Head(jobs)))]
    /\ jobs' = Tail(jobs)
    /\ UNCHANGED <<predictions, jobsClosed, jobNext, wPc, results,
                   resultsClosed, detections, predPc, predFrame>>

\* worker: the range ends on the closed, empty channel;
\* if len(localDetections) > 0 the worker goes on to send them
WorkerRangeEnd(w) ==
    /\ wPc[w] = "recv" /\ Len(jobs) = 0 /\ jobsClosed
    /\ wPc' = [wPc EXCEPT ![w] =
          IF Len(localDetections[w]) > 0 THEN "send" ELSE "done"]
    /\ UNCHANGED <<predictions, jobs, jobsClosed, jobNext, localDetections,
                   results, resultsClosed, detections, predPc, predFrame>>

\* worker: results <- localDetections; deferred wg.Done()
WorkerSend(w) ==
    /\ wPc[w] = "send" /\ Len(results) < NumWorkers
    /\ results' = Append(results, localDetections[w])
    /\ wPc' = [wPc EXCEPT ![w] = "done"]
    /\ UNCHANGED <<predictions, jobs, jobsClosed, jobNext, localDetections,
                   resultsClosed, detections, predPc, predFrame>>

\* closer: wg.Wait(); close(results)
ResultsClose ==
    /\ predPc # "none" /\ ~resultsClosed
    /\ \A w \in Workers : wPc[w] = "done"
    /\ resultsClosed' = TRUE
    /\ UNCHANGED <<predictions, jobs, jobsClosed, jobNext, wPc,
                   localDetections, results, detections, predPc, predFrame>>

\* caller: for detectionChunk := range results { append(detections, ...) }
Gather ==
    /\ predPc = "gather" /\ Len(results) > 0
    /\ detections' = detections \o Head(results)
    /\ results' = Tail(results)
    /\ UNCHANGED <<predictions, jobs, jobsClosed, jobNext, wPc,
                   localDetections, resultsClosed, predPc, predFrame>>

\* caller: the range ends on the closed, empty channel
GatherEnd ==
    /\ predPc = "gather" /\ Len(results) = 0 /\ resultsClosed
    /\ predPc' = "sort"
    /\ UNCHANGED <<predictions, jobs, jobsClosed, jobNext, wPc,
                   localDetections, results, resultsClosed, detections,
                   predFrame>>

\* the less function of sortDetectionsByConfidence
Less(a, b) == a.Confidence > b.Confidence

\* the orders sort.Slice may leave: a rearrangement in which no element
\* is less than the one before it (ties keep no particular order)
SortedOrders(d) ==
    {p \in Permutations(1..Len(d)) :
        \A k \in 1..(Len(d) - 1) : ~Less(d[p[k + 1]], d[p[k]])}

\* if len(detections) > 0 { sortDetectionsByConfidence(detections) };
\* return detections, nil
SortAndReturn ==
    /\ predPc = "sort"
    /\ \E p \in SortedOrders(detections) :
          detections' = [k \in 1..Len(detections) |-> detections[p[k]]]
    /\ predPc' = "returned"
    /\ UNCHANGED <<predictions, jobs, jobsClosed, jobNext, wPc,
                   localDetections, results, resultsClosed, predFrame>>

\* --------------------------------------------------------- calculateBBox
\* float32 arithmetic on values held as multiples of 1/FUnit; the inputs
\* below are chosen so that every operation of calculateBBox is exact
F(n) == n * FUnit
FMul(a, b) == (a * b) \div FUnit
FDiv(a, b) == (a * FUnit) \div b
\* int32(x): the fraction is dropped, towards zero
ToInt32(a) == IF a >= 0 THEN a \div FUnit ELSE 0 - ((0 - a) \div FUnit)

\* max32
max32(a, b) == IF a > b THEN a ELSE b
\* minF32
minF32(a, b) == IF a < b THEN a ELSE b

\* cell centres cx, cy: -0.5, 0, 0.25, 1.5 and 100
CentreValues == {0 - (FUnit \div 2), 0, FUnit \div 4, (3 * FUnit) \div 2,
                 F(100)}
\* cell sizes w, h: 0, 0.25, 1.5 and 100
SizeValues == {0, FUnit \div 4, (3 * FUnit) \div 2, F(100)}
\* img.Bounds().Dx() and Dy() of the decoded image
ImageSizes == {320, 640}

\* calculateBBox up to the corner variables x1, y1, x2, y2
Corners(c, ow, oh) ==
    LET scaleX == FDiv(ow, F(InputWidth))
        scaleY == FDiv(oh, F(InputHeight))
        centerX == FMul(c[1], F(InputWidth))
        centerY == FMul(c[2], F(InputHeight))
        width == FMul(c[3], F(InputWidth))
        height == FMul(c[4], F(InputHeight))
    IN <<FMul(centerX - FDiv(width, F(2)), scaleX),
         FMul(centerY - FDiv(height, F(2)), scaleY),
         FMul(centerX + FDiv(width, F(2)), scaleX),
         FMul(centerY + FDiv(height, F(2)), scaleY)>>

\* the returned array: int32(max32(0, x1)), int32(max32(0, y1)),
\* int32(minF32(origWidth, x2)), int32(minF32(origHeight, y2))
Clamped(k, ow, oh) ==
    <<ToInt32(max32(0, k[1])), ToInt32(max32(0, k[2])),
      ToInt32(minF32(ow, k[3])), ToInt32(minF32(oh, k[4]))>>

calculateBBox(c, ow, oh) == Clamped(Corners(c, ow, oh), ow, oh)

\* what calculateBBox leaves alone
bboxFrame == <<poolVars, metricVars, handlerVars, healthVars, dpc, snapVars,
               ctorVars, pipeVars, respVars, predVars, lateVars>>

\* calculateBBox is called for a surviving cell with
\* float32(originalWidth), float32(originalHeight)
BBoxStart ==
    /\ coords \in CentreValues \X CentreValues \X SizeValues \X SizeValues
    /\ origWidth \in {F(n) : n \in ImageSizes}
    /\ origHeight \in {F(n) : n \in ImageSizes}
    /\ corners = <<0, 0, 0, 0>>
    /\ bbox = <<0, 0, 0, 0>>
    /\ bboxPc = "corners"

\* scale factors, centre and size, then x1, y1, x2, y2
BBoxCorners ==
    /\ bboxPc = "corners"
    /\ corners' = Corners(coords, origWidth, origHeight)
    /\ bboxPc' = "clamp"
    /\ UNCHANGED <<coords, origWidth, origHeight, bbox, bboxFrame>>

\* return [4]int32{...}
BBoxReturn ==
    /\ bboxPc = "clamp"
    /\ bbox' = calculateBBox(coords, origWidth, origHeight)
    /\ bboxPc' = "returned"
    /\ UNCHANGED <<coords, origWidth, origHeight, corners, bboxFrame>>

\* ---------------------------------------------------------- calculateIOU
\* what the clustering helpers leave alone
early == <<poolVars, metricVars, handlerVars, healthVars, dpc, snapVars,
           ctorVars, pipeVars, respVars, predVars, bboxVars>>

\* math.Max / math.Min on the float64 images of int32 values, which are exact
MathMax(a, b) == IF a > b THEN a ELSE b
MathMin(a, b) == IF a < b THEN a ELSE b

\* the [4]int32 boxes calculateBBox can hand on: corners on a small grid,
\* among them boxes of zero width or height and boxes whose x2 lies left of
\* x1 (calculateBBox clamps x1 from below and x2 from above only)
IouCoords == 0..MaxCoord
IouBoxes == {<<a, b, c, d>> : a \in IouCoords, b \in IouCoords,
                              c \in IouCoords, d \in IouCoords}

\* calculateIOU: the float64 quotient intersection / union is held as the
\* pair (intersection, union); the early `return 0.0` is (0, 1)
calculateIOU(a, b) ==
    LET x1 == MathMax(a[1], b[1])
        y1 == MathMax(a[2], b[2])
        x2 == MathMin(a[3], b[3])
        y2 == MathMin(a[4], b[4])
        intersection == (x2 - x1) * (y2 - y1)
        area1 == (a[3] - a[1]) * (a[4] - a[2])
        area2 == (b[3] - b[1]) * (b[4] - b[2])
        union == area1 + area2 - intersection
    IN IF x2 <= x1 \/ y2 <= y1 THEN <<0, 1>> ELSE <<intersection, union>>

\* comparisons of two quotients with positive denominators
QuotEq(p, q) == p[1] * q[2] = q[1] * p[2]
QuotIsZero(p) == p[1] = 0
QuotIsOne(p) == p[1] = p[2]
QuotInUnit(p) == p[2] > 0 /\ 0 <= p[1] /\ p[1] <= p[2]

\* calculateIOU is called on two boxes
IouStart ==
    /\ box1 \in IouBoxes
    /\ box2 \in IouBoxes
    /\ iou = <<0, 1>>
    /\ iouSwapped = <<0, 1>>
    /\ iouPc = "call"

\* the call returns; so does the call with the arguments exchanged
IouReturn ==
    /\ iouPc = "call"
    /\ iou' = calculateIOU(box1, box2)
    /\ iouSwapped' = calculateIOU(box2, box1)
    /\ iouPc' = "returned"
    /\ UNCHANGED <<box1, box2, early, besidesIou>>

\* ---------------------------------------------------------- clusterBoxes
\* width * height of a box, the square of its entry in sizes
Area(b) == (b[3] - b[1]) * (b[4] - b[2])

\* the NaN math.Sqrt returns for a negative product; it stands below every
\* size, which is where sort.Float64s puts NaN
NaN == 0 - 1

\* math.Sqrt(width * height), squared: NaN when the product is negative
SizeSquared(b) == IF Area(b) < 0 THEN NaN ELSE Area(b)

\* calculateMedianSize, squared: sizes[len(sizes)/2] of the sorted sizes.
\* math.Sqrt is increasing on the products >= 0 and sort.Float64s puts the
\* NaN entries first, so the median size is the root of the entry that
\* stands at that index among the sorted squares
MedianArea(d) ==
    LET n == Len(d)
        k == n \div 2
        sizes == {SizeSquared(d[i].BBox) : i \in 1..n}
        below(v) == Cardinality({i \in 1..n : SizeSquared(d[i].BBox) < v})
        upTo(v) == Cardinality({i \in 1..n : SizeSquared(d[i].BBox) <= v})
    IN CHOOSE v \in sizes : below(v) <= k /\ k < upTo(v)

\* eps = math.Max(medianSize, DefaultClusterSize) * 0.5, as (2 * eps)^2;
\* math.Max of NaN is NaN
FourEpsSquared(mArea) ==
    IF mArea = NaN THEN NaN
    ELSE MathMax(mArea, DefaultClusterSize * DefaultClusterSize)

\* minPoints := 1; if len(detections) > 3 { minPoints = 2 }
MinPointsFor(n) == IF n > 3 THEN 2 ELSE 1

\* distance(p1, p2), squared
DistanceSquared(p, q) ==
    (p[1] - q[1]) * (p[1] - q[1]) + (p[2] - q[2]) * (p[2] - q[2])
  + (p[3] - q[3]) * (p[3] - q[3]) + (p[4] - q[4]) * (p[4] - q[4])

\* distance(p1, p2) <= eps, both sides squared and multiplied by 4; no
\* distance is <= NaN
WithinEps(p, q, mArea) ==
    /\ FourEpsSquared(mArea) # NaN
    /\ 4 * DistanceSquared(p, q) <= FourEpsSquared(mArea)

\* getNeighbors: the indices within eps of the point, in index order (the
\* point itself is among them)
getNeighbors(points, pointIdx, mArea) ==
    SelectSeq([i \in 1..Len(points) |-> i],
              LAMBDA i : WithinEps(points[pointIdx], points[i], mArea))

\* a dbscan that keeps one cluster id for every cluster it opens
NextClusterSame(c) == c

\* currentCluster++
NextCluster(c) == c + 1

\* expandCluster from index i of neighbors on; the result is the clusters
\* slice, which the function updates in place
RECURSIVE expandCluster(_, _, _, _, _, _, _)
expandCluster(points, cl, neighbors, i, cluster, mArea, minPts) ==
    IF i > Len(neighbors) THEN cl
    ELSE LET pointIdx == neighbors[i]
         IN IF cl[pointIdx] = 0 - 1
            THEN LET newNeighbors == getNeighbors(points, pointIdx, mArea)
                 IN expandCluster(points,
                        [cl EXCEPT ![pointIdx] = cluster],
                        IF Len(newNeighbors) >= minPts
                        THEN neighbors \o newNeighbors ELSE neighbors,
                        i + 1, cluster, mArea, minPts)
            ELSE expandCluster(points, cl, neighbors, i + 1, cluster, mArea,
                               minPts)

\* the loop of dbscan from point i on
RECURSIVE dbscanFrom(_, _, _, _, _, _)
dbscanFrom(points, cl, i, currentCluster, mArea, minPts) ==
    IF i > Len(points) THEN cl
    ELSE IF cl[i] # 0 - 1
    THEN dbscanFrom(points, cl, i + 1, currentCluster, mArea, minPts)
    ELSE LET neighbors == getNeighbors(points, i, mArea)
         IN IF Len(neighbors) < minPts
            THEN dbscanFrom(points, cl, i + 1, currentCluster, mArea, minPts)
            ELSE dbscanFrom(points,
                     expandCluster(points, [cl EXCEPT ![i] = currentCluster],
                                   neighbors, 1, currentCluster, mArea,
                                   minPts),
                     i + 1, NextCluster(currentCluster), mArea, minPts)

\* dbscan: every point starts as noise
dbscan(points, mArea, minPts) ==
    dbscanFrom(points, [i \in 1..Len(points) |-> 0 - 1], 1, 0, mArea, minPts)

\* min32 of clustering.go (its max32 is the max32 above)
min32(a, b) == IF a < b THEN a ELSE b

\* a mergeBoxes that returns the first box of the cluster
mergeBoxesFirst(boxes) ==
    IF Len(boxes) = 0 THEN <<0, 0, 0, 0>> ELSE boxes[1]

\* mergeBoxes from index i on, result so far r
RECURSIVE mergeFrom(_, _, _)
mergeFrom(boxes, i, r) ==
    IF i > Len(boxes) THEN r
    ELSE mergeFrom(boxes, i + 1,
                   <<min32(r[1], boxes[i][1]), min32(r[2], boxes[i][2]),
                     max32(r[3], boxes[i][3]), max32(r[4], boxes[i][4])>>)

\* mergeBoxes
mergeBoxes(boxes) ==
    IF Len(boxes) = 0 THEN <<0, 0, 0, 0>> ELSE mergeFrom(boxes, 2, boxes[1])

\* calculateIOU(bbox, existing) > IouThreshold
OverThreshold(q) == q[1] * 100 > IouThreshold * q[2]

\* the noise branch of processClusters: some box already in clusterMap
\* overlaps bbox by more than the threshold (the scan over the map stops at
\* the first such box, in whatever order the map is walked)
Merged(clusterMap, nb) ==
    \E c \in DOMAIN clusterMap :
        \E k \in 1..Len(clusterMap[c]) :
            OverThreshold(calculateIOU(nb, clusterMap[c][k]))

\* a noise branch that stores the absorbed box in the cluster it matched
AbsorbInto(clusterMap, nb) ==
    LET c == CHOOSE c \in DOMAIN clusterMap :
                 \E k \in 1..Len(clusterMap[c]) :
                     OverThreshold(calculateIOU(nb, clusterMap[c][k]))
    IN [clusterMap EXCEPT ![c] = Append(@, nb)]

\* `boxes = append(boxes, bbox)` assigns to the loop variable only: the
\* slice held by clusterMap keeps its length
Absorb(clusterMap, nb) == clusterMap

\* the first loop of processClusters from detection i on; the result is
\* clusterMap (an absent key is the empty list) and the noise boxes kept
RECURSIVE groupFrom(_, _, _, _)
groupFrom(dets, cl, i, acc) ==
    IF i > Len(dets) THEN acc
    ELSE LET nb == dets[i].BBox
         IN IF cl[i] = 0 - 1
            THEN IF Merged(acc.clusterMap, nb)
                 THEN groupFrom(dets, cl, i + 1,
                          [acc EXCEPT !.clusterMap = Absorb(@, nb)])
                 ELSE groupFrom(dets, cl, i + 1,
                          [acc EXCEPT !.finalBoxes = Append(@, nb)])
            ELSE groupFrom(dets, cl, i + 1,
                     [acc EXCEPT !.clusterMap[cl[i]] = Append(@, nb)])

\* cluster ids dbscan can hand out for n points
ClusterIds(n) == 0..(n - 1)

\* processClusters up to the end of its first loop
groupBoxes(dets, cl) ==
    groupFrom(dets, cl, 1,
              [clusterMap |-> [c \in ClusterIds(Len(dets)) |-> <<>>],
               finalBoxes |-> <<>>])

\* keys present in clusterMap
Keys(clusterMap) == {c \in DOMAIN clusterMap : Len(clusterMap[c]) > 0}

\* the orders in which `range clusterMap` may visit the keys
MapOrders(clusterMap) ==
    LET ks == Keys(clusterMap)
        n == Cardinality(ks)
    IN {o \in [1..n -> ks] : \A a, b \in 1..n : a # b => o[a] # o[b]}

\* a processClusters that forgets the boxes its first loop put in finalBoxes
processClustersMergedOnly(dets, cl, order) ==
    LET g == groupBoxes(dets, cl)
    IN [k \in 1..Len(order) |-> mergeBoxes(g.clusterMap[order[k]])]

\* processClusters, the second loop walking the map in the order given
processClusters(dets, cl, order) ==
    LET g == groupBoxes(dets, cl)
    IN g.finalBoxes
       \o [k \in 1..Len(order) |-> mergeBoxes(g.clusterMap[order[k]])]

\* points[i] of clusterBoxes: the four corners as float64
Points(dets) == [i \in 1..Len(dets) |-> dets[i].BBox]

\* boxes the detections carry: two overlapping pairs far from each other, a
\* box that overlaps the second box of the first pair by more than the
\* threshold from farther than eps, a box of zero width, and the box
\* calculateBBox returns for a centre left of the image, whose x2 lies left
\* of its x1 (width * height < 0)
ClusterBoxes ==
    {<<0, 0, 100, 100>>, <<10, 0, 110, 100>>, <<46, 0, 146, 100>>,
     <<0, 300, 100, 400>>, <<10, 300, 110, 400>>, <<200, 200, 200, 260>>,
     <<0, 80, 0 - 240, 240>>}

\* detection lists processPredictions can return: sorted by confidence,
\* highest first
ClusterInputs ==
    UNION {{d \in [1..n -> [BBox : ClusterBoxes,
                            Confidence : {ConfThreshold, ConfThreshold + 1}]] :
               \A k \in 1..(n - 1) : ~Less(d[k + 1], d[k])} : n \in 0..MaxDets}

\* clusterBoxes is called with the detections of one request
ClusterStart ==
    /\ clDets \in ClusterInputs
    /\ medianArea = 0
    /\ minPoints = 0
    /\ clusters = <<>>
    /\ finalBoxes = <<>>
    /\ clPc = "call"

\* what clusterBoxes leaves alone
clusterFrame == <<poolVars, metricVars, handlerVars, healthVars, dpc,
                  snapVars, ctorVars, pipeVars, predVars, bboxVars,
                  besidesCluster>>

\* if len(detections) == 0 { return nil }; medianSize, eps and minPoints
ClusterScale ==
    /\ clPc = "call"
    /\ IF Len(clDets) = 0
       THEN /\ clPc' = "returned"
            /\ UNCHANGED <<medianArea, minPoints>>
       ELSE /\ medianArea' = MedianArea(clDets)
            /\ minPoints' = MinPointsFor(Len(clDets))
            /\ clPc' = "dbscan"
    /\ UNCHANGED <<clDets, clusters, finalBoxes, respVars, clusterFrame>>

\* clusters := dbscan(points, eps, minPoints)
ClusterDbscan ==
    /\ clPc = "dbscan"
    /\ clusters' = dbscan(Points(clDets), medianArea, minPoints)
    /\ clPc' = "process"
    /\ UNCHANGED <<clDets, medianArea, minPoints, finalBoxes, respVars,
                   clusterFrame>>

\* return processClusters(detections, clusters)
ClusterProcess ==
    /\ clPc = "process"
    /\ \E order \in MapOrders(groupBoxes(clDets, clusters).clusterMap) :
          finalBoxes' = processClusters(clDets, clusters, order)
    /\ clPc' = "returned"
    /\ UNCHANGED <<clDets, medianArea, minPoints, clusters, respVars,
                   clusterFrame>>

\* ProcessImage returns the boxes to the handler: the success path starts
ClusterHandOver ==
    /\ clPc = "returned" /\ respPc = "none"
    /\ boxCount' = Len(finalBoxes)
    /\ respPc' = "count"
    /\ UNCHANGED <<faceCount, response, body, clusterVars, clusterFrame>>

\* ------------------------------------------------------------ preprocessing
\* A float32 is held as its IEEE-754 bit pattern, read as a signed 32-bit
\* integer: 0 is 0.0, 1065353216 (0x3F800000) is 1.0, and patterns of
\* non-negative values are ordered as the values are.
F32One == 1065353216
\* 0x3B808081, the constant float255inv of the row routines: 8421505 * 2^-31
Inv255Mantissa == 8421505
Inv255Bits == 998277249

\* position of the highest set bit of v (v in 1..255)
HighBit(v) == CHOOSE e \in 0..7 : 2^e <= v /\ v < 2^(e + 1)

\* q rounded up when the remainder r of a division by d asks for it:
\* round to nearest, ties to even
RoundNearestEven(q, r, d) ==
    IF 2 * r > d \/ (2 * r = d /\ q % 2 = 1) THEN q + 1 ELSE q

\* float32(v) / 255.0 for a channel sample v in 0..255.  For v < 255 the
\* quotient lies in [2^(e-8), 2^(e-7)) with e the high bit of v, so its
\* 24-bit significand is (w * 2^24) / 255 rounded, w = v * 2^(7-e); the
\* long division uses 2^24 = 65793 * 255 + 1
F32Div255(v) ==
    IF v = 0 THEN 0
    ELSE IF v = 255 THEN F32One
    ELSE LET e == HighBit(v)
             w == v * 2^(7 - e)
             q == w * 65793 + (w \div 255)
             r == w % 255
         IN (118 + e) * 2^23 + RoundNearestEven(q, r, 255)

\* float32(v) * float255inv (VCVTDQ2PS, VMULPS): the product
\* v * 8421505 * 2^-31 is v * 2^23 + v * 32897 in units of 2^-31; it is
\* shifted right by s to 24 significant bits and rounded
F32MulInv255(v) ==
    IF v = 0 THEN 0
    ELSE LET e == HighBit(v)
             low == v * (Inv255Mantissa - 2^23)
             s == IF v * 2^(23 - e) + (low \div 2^e) >= 2^24
                  THEN e + 1 ELSE e
             aq == (v * 2^23) \div 2^s
             ar == (v * 2^23) % 2^s
             q == aq + ((ar + low) \div 2^s)
             r == (ar + low) % 2^s
         IN (119 + s) * 2^23 + RoundNearestEven(q, r, 2^s) - 2^23

\* the low 32 bits of the integer product v * 0x3B808081 (VPMULLD on the
\* zero-extended bytes and the broadcast constant), stored as a float32
Int32MulInv255(v) ==
    LET lo == v * (Inv255Bits % 65536)
        hi == (v * (Inv255Bits \div 65536) + (lo \div 65536)) % 65536
        signedHi == IF hi >= 32768 THEN hi - 65536 ELSE hi
    IN signedHi * 65536 + (lo % 65536)

\* the float32 whose bit pattern is the integer v (no conversion: MOVL, or
\* MULPS straight after PMOVZXBD), times float255inv.  v * 2^-149 is
\* subnormal and so is the product, (v * 2^23 + low) * 2^-31 units of
\* 2^-149: less than two units, rounded to one unit when above a half
SubnormalMulInv255(v) ==
    LET low == v * (Inv255Mantissa - 2^23)
    IN IF (v - 128) * 2^23 + low > 0 THEN 1 ELSE 0

PrepRows == 0..(PrepHeight - 1)
PrepCols == 0..(PrepWidth - 1)
PrepChannels == 0..2
\* channelSize := p.width * p.height
ChannelSize == PrepWidth * PrepHeight
\* img.Stride of an image of exactly the model's input size
PixStride == 4 * PrepWidth
Zeros(n) == [i \in 1..n |-> 0]

\* the images: two pixel values laid out as a checkerboard
PrepColours == {<<255, 255, 255, 255>>, <<255, 0, 0, 255>>,
                <<3, 128, 254, 255>>, <<0, 0, 0, 0>>}
Checkerboard(c0, c1) ==
    [o \in 1..(PrepHeight * PixStride) |->
        LET y == (o - 1) \div PixStride
            x == ((o - 1) % PixStride) \div 4
        IN (IF (x + y) % 2 = 0 THEN c0 ELSE c1)[((o - 1) % 4) + 1]]
PrepImages == {Checkerboard(c0, c1) : c0 \in PrepColours, c1 \in PrepColours}
PicKinds == {"RGBA", "NRGBA"}
CpuFlagSets == [AVX512 : BOOLEAN, AVX2 : BOOLEAN, SSE41 : BOOLEAN]
RowAsmFiles == {"simd.go", "part_001"}

\* img.At(x, y).RGBA(): channel c of the pixel as a 16-bit sample; image.RGBA
\* spreads the byte over 16 bits, image.NRGBA also multiplies by alpha
At16(kind, p, x, y, c) ==
    LET v == p[y * PixStride + 4 * x + c + 1]
        a == p[y * PixStride + 4 * x + 3 + 1]
    IN IF kind = "RGBA" THEN v * 257 ELSE (v * 257 * a) \div 255

\* processGeneric: the value written at index i (from 0) of the buffer,
\* float32(r>>8) / 255.0
GenericAt(kind, p, i) ==
    LET c == i \div ChannelSize
        y == (i % ChannelSize) \div PrepWidth
        x == i % PrepWidth
    IN F32Div255(At16(kind, p, x, y, c) \div 256)
processGeneric(kind, p) == [i \in 1..(3 * ChannelSize) |-> GenericAt(kind, p, i - 1)]

\* the switch of Process; the flags are false on every architecture but
\* amd64, which is what the GOARCH conjunct of each case repeats
RowRoutine(flags, asm) ==
    IF flags.AVX512 THEN "AVX512"
    ELSE IF flags.AVX2
         THEN (IF asm = "simd.go" THEN "AVX2 converting" ELSE "AVX2")
    ELSE IF flags.SSE41 THEN "SSE41"
    ELSE "generic"

\* pixels one iteration of the routine's vector loop handles
Lanes(routine) ==
    IF routine = "AVX512" THEN 16 ELSE IF routine = "SSE41" THEN 4 ELSE 8
\* what the vector loop stores for a source byte v
VectorLane(routine, v) ==
    IF routine = "AVX2 converting" THEN F32MulInv255(v)
    ELSE IF routine = "SSE41" THEN SubnormalMulInv255(v)
    ELSE Int32MulInv255(v)
\* what the one-pixel loop after it stores
TailLane(routine, v) ==
    IF routine = "AVX2 converting" THEN F32MulInv255(v)
    ELSE SubnormalMulInv255(v)
\* processRow(dst, src, width): element k (from 0) of the row written at
\* dst, read from the byte at src + k
processRow(routine, p, src, k) ==
    LET vectorised == (PrepWidth \div Lanes(routine)) * Lanes(routine)
        v == p[src + k + 1]
    IN IF k < vectorised THEN VectorLane(routine, v) ELSE TailLane(routine, v)

\* processBufferWithSIMD on an *image.RGBA: the value written at index i
\* (from 0): plane c, row y gets processRow(dst, srcRow + c, width)
SIMDAt(routine, p, i) ==
    LET c == i \div ChannelSize
        y == (i % ChannelSize) \div PrepWidth
        x == i % PrepWidth
    IN processRow(routine, p, y * PixStride + c, x)

\* the value either path writes at index i
ProcessAt(routine, kind, p, i) ==
    IF routine # "generic" /\ kind = "RGBA" THEN SIMDAt(routine, p, i)
    ELSE GenericAt(kind, p, i)

\* what prepareInput leaves alone
prepFrame == <<early, besidesPrep>>

\* p.getAlignedBuffer() on the pool NewSIMDPreprocessor has just made: the
\* pool is empty, New makes a zeroed buffer; the Put is deferred
PrepGet ==
    /\ prepPc = "get"
    /\ prepBuffer' = Zeros(3 * ChannelSize)
    /\ lease' = "leased"
    /\ rowY' = 0
    /\ prepPc' = "rows"
    /\ UNCHANGED <<picKind, pix, cpuFlags, rowAsm, puts, tensorData, copyLease>>
    /\ UNCHANGED prepFrame

\* one pass of the loop over y, on the path the switch chose
PrepRow ==
    /\ prepPc = "rows"
    /\ rowY < PrepHeight
    /\ prepBuffer' =
         [i \in 1..(3 * ChannelSize) |->
             IF ((i - 1) % ChannelSize) \div PrepWidth = rowY
             THEN ProcessAt(RowRoutine(cpuFlags, rowAsm), picKind, pix, i - 1)
             ELSE prepBuffer[i]]
    /\ rowY' = rowY + 1
    /\ UNCHANGED <<picKind, pix, cpuFlags, rowAsm, lease, puts, tensorData,
                   copyLease, prepPc>>
    /\ UNCHANGED prepFrame

\* return buffer.data: the deferred bufferPool.Put(buffer) runs
PrepReturn ==
    /\ prepPc = "rows"
    /\ rowY = PrepHeight
    /\ lease' = "pooled"
    /\ puts' = puts + 1
    /\ prepPc' = "copy"
    /\ UNCHANGED <<picKind, pix, cpuFlags, rowAsm, prepBuffer, tensorData,
                   copyLease, rowY>>
    /\ UNCHANGED prepFrame

\* copy(dst.GetData(), buffer) in prepareInput
PrepCopy ==
    /\ prepPc = "copy"
    /\ tensorData' = prepBuffer
    /\ copyLease' = lease
    /\ prepPc' = "done"
    /\ UNCHANGED <<picKind, pix, cpuFlags, rowAsm, prepBuffer, lease, puts,
                   rowY>>
    /\ UNCHANGED prepFrame

\* prepareInput is called with the resized image; NewSIMDPreprocessor has
\* returned and Process starts
PrepStart ==
    /\ picKind \in PicKinds
    /\ pix \in PrepImages
    /\ cpuFlags \in CpuFlagSets
    /\ rowAsm \in RowAsmFiles
    /\ prepBuffer = <<>>
    /\ lease = "none"
    /\ puts = 0
    /\ tensorData = Zeros(3 * ChannelSize)
    /\ copyLease = "none"
    /\ rowY = 0
    /\ prepPc = "get"

\* ------------------------------------------------------------------- main
\* main has neither returned nor ended the process through log.Fatalf: the
\* process and its goroutines run
Alive == mainPc \notin {"exited", "fatal"}
\* a request the server has accepted and not yet answered
InFlight(h) == pc[h] \notin {"idle", "done"}
\* the destroyer a new call of pool.Destroy becomes: the callers reach
\* p.mu in the order of their calls
NextDestroyer == IF caller["first"] = "none" THEN "first" ELSE "second"
\* what main and the signal goroutine leave alone
mainFrame == <<early, besidesMain>>

\* main is inside srv.ListenAndServe, the goroutine inside <-stop
MainStart ==
    /\ mainPc = "serving"
    /\ sigPc = "waiting"
    /\ srvClosed = FALSE
    /\ deadline = FALSE
    /\ caller = [d \in Destroyers |-> "none"]
    /\ envDestroyed = 0

\* <-stop delivers SIGINT or SIGTERM; context.WithTimeout, srv.Shutdown(ctx)
\* is entered: the listener closes and no request is accepted any more
SignalShutdown ==
    /\ Alive /\ sigPc = "waiting"
    /\ sigPc' = "shutdown"
    /\ srvClosed' = TRUE
    /\ UNCHANGED <<mainPc, deadline, caller, envDestroyed, mainFrame>>

\* the 30 s of ctx elapse while srv.Shutdown waits
ShutdownDeadline ==
    /\ Alive /\ sigPc = "shutdown" /\ ~deadline
    /\ deadline' = TRUE
    /\ UNCHANGED <<mainPc, sigPc, srvClosed, caller, envDestroyed, mainFrame>>

\* srv.Shutdown returns: every connection is idle, or ctx is done; then
\* pool.Destroy() is called
SignalCallDestroy ==
    /\ Alive /\ sigPc = "shutdown"
    /\ deadline \/ \A h \in Handlers : ~InFlight(h)
    /\ sigPc' = "destroy"
    /\ caller' = [caller EXCEPT ![NextDestroyer] = "signal"]
    /\ UNCHANGED <<mainPc, srvClosed, deadline, envDestroyed, mainFrame>>

\* pool.Destroy() has returned to the goroutine; ort.DestroyEnvironment()
SignalTeardown ==
    /\ Alive /\ sigPc = "destroy"
    /\ \E d \in Destroyers : caller[d] = "signal" /\ dpc[d] = "returned"
    /\ envDestroyed' = envDestroyed + 1
    /\ sigPc' = "done"
    /\ UNCHANGED <<mainPc, srvClosed, deadline, caller, mainFrame>>

\* srv.ListenAndServe returns http.ErrServerClosed as soon as srv.Shutdown
\* has been called; main reaches its end and the deferred pool.Destroy()
\* is called
MainCallDestroy ==
    /\ mainPc = "serving" /\ srvClosed
    /\ mainPc' = "destroy"
    /\ caller' = [caller EXCEPT ![NextDestroyer] = "main"]
    /\ UNCHANGED <<sigPc, srvClosed, deadline, envDestroyed, mainFrame>>

\* srv.ListenAndServe returns an error other than http.ErrServerClosed (the
\* listener cannot be opened, or Accept fails) before any Shutdown; main
\* enters log.Fatalf, which first writes the message
MainServeError ==
    /\ mainPc = "serving" /\ ~srvClosed
    /\ mainPc' = "fatalf"
    /\ UNCHANGED <<sigPc, srvClosed, deadline, caller, envDestroyed, mainFrame>>

\* log.Fatalf has written its message and calls os.Exit(1): the process
\* ends at once and no deferred call runs
MainFatal ==
    /\ mainPc = "fatalf"
    /\ mainPc' = "fatal"
    /\ UNCHANGED <<sigPc, srvClosed, deadline, caller, envDestroyed, mainFrame>>

\* the deferred pool.Destroy() has returned; the deferred
\* modelSession.Destroy() and ort.DestroyEnvironment() run, and main enters
\* the deferred os.RemoveAll(tmpDir)
MainTeardown ==
    /\ mainPc = "destroy"
    /\ \E d \in Destroyers : caller[d] = "main" /\ dpc[d] = "returned"
    /\ envDestroyed' = envDestroyed + 1
    /\ mainPc' = "cleanup"
    /\ UNCHANGED <<sigPc, srvClosed, deadline, caller, mainFrame>>

\* os.RemoveAll has returned; main returns and the process ends
MainExit ==
    /\ mainPc = "cleanup"
    /\ mainPc' = "exited"
    /\ UNCHANGED <<sigPc, srvClosed, deadline, caller, envDestroyed, mainFrame>>

\* ----------------------------------------------------- dbscan, step by step
\* boxes whose corners are the points: three in a chain (each within eps of
\* the next, the ends farther apart than eps), one far away, one of zero
\* width, one whose x2 lies left of its x1
DbscanBoxes ==
    {<<0, 0, 100, 100>>, <<30, 0, 130, 100>>, <<60, 0, 160, 100>>,
     <<0, 300, 100, 400>>, <<200, 200, 200, 260>>, <<0, 80, 0 - 240, 240>>}
DbscanInputs == UNION {[1..n -> DbscanBoxes] : n \in 1..MaxPoints}
\* the detections the points come from
DetectionsOf(points) ==
    [i \in 1..Len(points) |-> [BBox |-> points[i], Confidence |-> ConfThreshold]]

\* an outer loop that takes every point, assigned or not
VisitedNever(c) == FALSE

\* if clusters[i] != -1 { continue }
Visited(c) == c # 0 - 1

\* what the steps of dbscan leave alone
dbFrame == <<early, besidesDb>>

\* clusterBoxes calls dbscan(points, eps, minPoints); clusters is made and
\* filled with -1
DbscanStart ==
    /\ dbPoints \in DbscanInputs
    /\ dbArea = MedianArea(DetectionsOf(dbPoints))
    /\ dbMinPts = MinPointsFor(Len(dbPoints))
    /\ dbClusters = [i \in 1..Len(dbPoints) |-> 0 - 1]
    /\ dbI = 1
    /\ dbNeighbors = <<>>
    /\ dbK = 0
    /\ dbCurrent = 0
    /\ dbPc = "loop"

\* one pass of the loop of dbscan up to the call of expandCluster
DbscanVisit ==
    /\ dbPc = "loop"
    /\ dbI <= Len(dbPoints)
    /\ LET neighbors == getNeighbors(dbPoints, dbI, dbArea)
       IN IF Visited(dbClusters[dbI]) \/ Len(neighbors) < dbMinPts
          THEN /\ dbI' = dbI + 1
               /\ UNCHANGED <<dbClusters, dbNeighbors, dbK, dbPc>>
          ELSE /\ dbClusters' = [dbClusters EXCEPT ![dbI] = dbCurrent]
               /\ dbNeighbors' = neighbors
               /\ dbK' = 1
               /\ dbPc' = "expand"
               /\ UNCHANGED dbI
    /\ UNCHANGED <<dbPoints, dbArea, dbMinPts, dbCurrent, dbFrame>>

\* one pass of the loop of expandCluster
DbscanExpand ==
    /\ dbPc = "expand"
    /\ dbK <= Len(dbNeighbors)
    /\ LET pointIdx == dbNeighbors[dbK]
           newNeighbors == getNeighbors(dbPoints, pointIdx, dbArea)
       IN IF dbClusters[pointIdx] = 0 - 1
          THEN /\ dbClusters' = [dbClusters EXCEPT ![pointIdx] = dbCurrent]
               /\ dbNeighbors' = IF Len(newNeighbors) >= dbMinPts
                                 THEN dbNeighbors \o newNeighbors
                                 ELSE dbNeighbors
          ELSE UNCHANGED <<dbClusters, dbNeighbors>>
    /\ dbK' = dbK + 1
    /\ UNCHANGED <<dbPoints, dbArea, dbMinPts, dbI, dbCurrent, dbPc, dbFrame>>

\* expandCluster returns; currentCluster++ and the next i
DbscanExpanded ==
    /\ dbPc = "expand"
    /\ dbK > Len(dbNeighbors)
    /\ dbCurrent' = NextCluster(dbCurrent)
    /\ dbI' = dbI + 1
    /\ dbPc' = "loop"
    /\ UNCHANGED <<dbPoints, dbArea, dbMinPts, dbClusters, dbNeighbors, dbK,
                   dbFrame>>

\* return clusters
DbscanReturn ==
    /\ dbPc = "loop"
    /\ dbI > Len(dbPoints)
    /\ dbPc' = "returned"
    /\ UNCHANGED <<dbPoints, dbArea, dbMinPts, dbClusters, dbI, dbNeighbors,
                   dbK, dbCurrent, dbFrame>>

\* ------------------------------------------- rows handed to worker goroutines
\* the two routines that split the rows among goroutines
RowFiles == {"part_004", "part_001"}
\* worker goroutines of a call, numbered as w of the loop
RowWorkers(n) == 0..(n - 1)
\* rowsPerWorker := p.height / p.numWorkers
RowsPerWorker(h, n) == h \div n
\* startRow := w * rowsPerWorker
StartRow(w, h, n) == w * RowsPerWorker(h, n)

\* a split in which the last worker stops like the others
EndRowNoLast(file, w, h, n) ==
    IF file = "part_004"
    THEN (w + 1) * RowsPerWorker(h, n)
    ELSE StartRow(w, h, n) + RowsPerWorker(h, n)

\* endRow := (w + 1) * rowsPerWorker in processParallel, startY +
\* rowsPerWorker in the older prepareInput; the last worker ends at the height
EndRow(file, w, h, n) ==
    IF w = n - 1
    THEN h
    ELSE IF file = "part_004"
         THEN (w + 1) * RowsPerWorker(h, n)
         ELSE StartRow(w, h, n) + RowsPerWorker(h, n)

\* the buffer indices one pass of the y loop writes: i, channelSize + i and
\* channelSize*2 + i for every x
RowIndices(y, h) ==
    {c * (RowWidth * h) + y * RowWidth + x : c \in 0..2, x \in 0..(RowWidth - 1)}

\* what the steps of the row-parallel routines leave alone
rowFrame == <<early, besidesRow>>

\* the call: a buffer of 3 * width * height floats nobody has written
RowsStart ==
    /\ rpFile \in RowFiles
    /\ rpHeight \in 1..MaxRows
    /\ rpWorkers \in 1..MaxRowWorkers
    /\ rpSpawned = 0
    /\ rpRow = [w \in RowWorkers(rpWorkers) |-> 0]
    /\ rpEnd = [w \in RowWorkers(rpWorkers) |-> 0]
    /\ rpDone = {}
    /\ rpWriters = [i \in 0..(3 * RowWidth * rpHeight - 1) |-> <<>>]
    /\ rpPc = "spawn"

\* one pass of the w loop: go func(start, end)
RowsSpawn ==
    /\ rpPc = "spawn"
    /\ rpSpawned < rpWorkers
    /\ rpRow' = [rpRow EXCEPT ![rpSpawned] = StartRow(rpSpawned, rpHeight, rpWorkers)]
    /\ rpEnd' = [rpEnd EXCEPT ![rpSpawned] =
                     EndRow(rpFile, rpSpawned, rpHeight, rpWorkers)]
    /\ rpSpawned' = rpSpawned + 1
    /\ UNCHANGED <<rpFile, rpHeight, rpWorkers, rpDone, rpWriters, rpPc,
                   rowFrame>>

\* the w loop ends; the caller reaches wg.Wait()
RowsSpawned ==
    /\ rpPc = "spawn"
    /\ rpSpawned = rpWorkers
    /\ rpPc' = "wait"
    /\ UNCHANGED <<rpFile, rpHeight, rpWorkers, rpSpawned, rpRow, rpEnd,
                   rpDone, rpWriters, rowFrame>>

\* one pass of the y loop of worker w: the row goes into the three planes
RowsWrite(w) ==
    /\ w < rpSpawned
    /\ w \notin rpDone
    /\ rpRow[w] < rpEnd[w]
    /\ rpWriters' = [i \in DOMAIN rpWriters |->
                        IF i \in RowIndices(rpRow[w], rpHeight)
                        THEN Append(rpWriters[i], w)
                        ELSE rpWriters[i]]
    /\ rpRow' = [rpRow EXCEPT ![w] = rpRow[w] + 1]
    /\ UNCHANGED <<rpFile, rpHeight, rpWorkers, rpSpawned, rpEnd, rpDone,
                   rpPc, rowFrame>>

\* the y loop of worker w ends; the deferred wg.Done() runs
RowsWorkerDone(w) ==
    /\ w < rpSpawned
    /\ w \notin rpDone
    /\ rpRow[w] >= rpEnd[w]
    /\ rpDone' = rpDone \cup {w}
    /\ UNCHANGED <<rpFile, rpHeight, rpWorkers, rpSpawned, rpRow, rpEnd,
                   rpWriters, rpPc, rowFrame>>

\* wg.Wait() returns once every worker is done
RowsWait ==
    /\ rpPc = "wait"
    /\ rpDone = RowWorkers(rpWorkers)
    /\ rpPc' = "returned"
    /\ UNCHANGED <<rpFile, rpHeight, rpWorkers, rpSpawned, rpRow, rpEnd,
                   rpDone, rpWriters, rowFrame>>

\* ------------------------------------------------------- specifications
\* steps of a request goroutine
HandlerStep(h) ==
    \/ HandleParse(h) \/ HandleDecode(h) \/ ClientCancel(h)
    \/ AcquireCheckClosed(h) \/ TimerFire(h) \/ SelectRecv(h)
    \/ AcquireMetricsInUse(h) \/ AcquireMetricsTotal(h) \/ SelectTimeout(h)
    \/ SelectCancel(h) \/ HandleProcess(h)
    \/ ReleaseCheckClosed(h) \/ ReleaseMetricsInUse(h)
    \/ ReleaseMetricsTotal(h) \/ ReleaseSend(h)

HealthStep ==
    \/ HealthTick \/ HealthMeasure \/ ReplenishInit \/ ReplenishRecordError
    \/ ReplenishSend

DestroyStep(d) ==
    \/ DestroyBegin(d) \/ DestroyClose(d) \/ DestroyRange(d)
    \/ DestroyReturn(d)

Next ==
    \/ \E h \in Handlers : HandlerStep(h)
    \/ HealthStep
    \/ \E d \in Destroyers : DestroyStep(d)

Spec == Init /\ [][Next]_vars

\* request goroutines alone: no health-check tick arrives and Destroy is not
\* called during the run
NextAcquireRelease == \E h \in Handlers : HandlerStep(h)

SpecAcquireRelease == Init /\ [][NextAcquireRelease]_vars

\* request goroutines, Destroy and /metrics requests: the goroutines that
\* read or write PoolMetrics
NextMetrics ==
    \/ \E h \in Handlers : HandlerStep(h)
    \/ \E d \in Destroyers : DestroyStep(d)
    \/ GetMetrics

SpecMetrics == Init /\ [][NextMetrics]_vars

\* steps of a request goroutine with ProcessImage taken step by step
RequestStep(h) ==
    \/ HandleParse(h) \/ HandleDecode(h) \/ ClientCancel(h)
    \/ AcquireCheckClosed(h) \/ TimerFire(h) \/ SelectRecv(h)
    \/ AcquireMetricsInUse(h) \/ AcquireMetricsTotal(h) \/ SelectTimeout(h)
    \/ SelectCancel(h)
    \/ ProcessBegin(h) \/ PipeCheck(h) \/ PipePreprocess(h) \/ PipeRun(h)
    \/ PipePostprocess(h) \/ PipeCluster(h) \/ PipeSleep(h)
    \/ HandleProcessResult(h)
    \/ ReleaseCheckClosed(h) \/ ReleaseMetricsInUse(h)
    \/ ReleaseMetricsTotal(h) \/ ReleaseSend(h)

\* requests served by an open pool, every stage of each request a step
NextRequest == \E h \in Handlers : RequestStep(h)

SpecRequest == Init /\ [][NextRequest]_vars

\* requests taken stage by stage while main's two Destroy calls run: the
\* service during shutdown
NextShutdown ==
    \/ \E h \in Handlers : RequestStep(h)
    \/ \E d \in Destroyers : DestroyStep(d)

SpecShutdown == Init /\ [][NextShutdown]_vars

\* the success path of one request, for every number of boxes
InitResponse ==
    /\ PoolInit
    /\ CtorReturned
    /\ PipeIdle
    /\ RespStart
    /\ PredIdle
    /\ BBoxIdle
    /\ IouIdle
    /\ ClusterIdle
    /\ PrepIdle
    /\ MainIdle
    /\ DbscanIdle
    /\ RowsIdle

NextResponse == RespCount \/ RespBuild \/ RespEncode

SpecResponse == InitResponse /\ [][NextResponse]_vars

\* one call of processPredictions on a buffer of the expected length
InitPredictions ==
    /\ PoolInit
    /\ CtorReturned
    /\ PipeIdle
    /\ RespIdle
    /\ PredStart
    /\ BBoxIdle
    /\ IouIdle
    /\ ClusterIdle
    /\ PrepIdle
    /\ MainIdle
    /\ DbscanIdle
    /\ RowsIdle

NextPredictions ==
    \/ JobSend \/ JobClose
    \/ \E w \in Workers : WorkerJob(w) \/ WorkerRangeEnd(w) \/ WorkerSend(w)
    \/ ResultsClose \/ Gather \/ GatherEnd \/ SortAndReturn

SpecPredictions == InitPredictions /\ [][NextPredictions]_vars

\* one call of calculateBBox, for every cell value and image size
InitBBox ==
    /\ PoolInit
    /\ CtorReturned
    /\ PipeIdle
    /\ RespIdle
    /\ PredIdle
    /\ BBoxStart
    /\ IouIdle
    /\ ClusterIdle
    /\ PrepIdle
    /\ MainIdle
    /\ DbscanIdle
    /\ RowsIdle

NextBBox == BBoxCorners \/ BBoxReturn

SpecBBox == InitBBox /\ [][NextBBox]_vars

\* one call of NewModelSessionPool, from its entry to its return
InitNew ==
    /\ PoolInit
    /\ CtorStart
    /\ PipeIdle
    /\ RespIdle
    /\ PredIdle
    /\ BBoxIdle
    /\ IouIdle
    /\ ClusterIdle
    /\ PrepIdle
    /\ MainIdle
    /\ DbscanIdle
    /\ RowsIdle

NextNew ==
    \/ CtorInitSession \/ CtorSend \/ CtorDestroyBegin \/ CtorDestroyClose
    \/ CtorDestroyRange \/ CtorDestroyReturn \/ CtorReturnError
    \/ CtorStartHealthCheck \/ CtorReturnPool

SpecNew == InitNew /\ [][NextNew]_vars

\* one call of calculateIOU, for every pair of boxes
InitIOU ==
    /\ PoolInit
    /\ CtorReturned
    /\ PipeIdle
    /\ RespIdle
    /\ PredIdle
    /\ BBoxIdle
    /\ IouStart
    /\ ClusterIdle
    /\ PrepIdle
    /\ MainIdle
    /\ DbscanIdle
    /\ RowsIdle

NextIOU == IouReturn

SpecIOU == InitIOU /\ [][NextIOU]_vars

\* one call of clusterBoxes on the detections of a request, then the
\* response the handler builds from the boxes
InitCluster ==
    /\ PoolInit
    /\ CtorReturned
    /\ PipeIdle
    /\ RespIdle
    /\ PredIdle
    /\ BBoxIdle
    /\ IouIdle
    /\ ClusterStart
    /\ PrepIdle
    /\ MainIdle
    /\ DbscanIdle
    /\ RowsIdle

NextClustering ==
    \/ ClusterScale \/ ClusterDbscan \/ ClusterProcess \/ ClusterHandOver
    \/ RespCount \/ RespBuild \/ RespEncode

SpecClustering == InitCluster /\ [][NextClustering]_vars

\* prepareInput on one image, on every path the CPU flags select
InitPrepare ==
    /\ PoolInit
    /\ CtorReturned
    /\ PipeIdle
    /\ RespIdle
    /\ PredIdle
    /\ BBoxIdle
    /\ IouIdle
    /\ ClusterIdle
    /\ PrepStart
    /\ MainIdle
    /\ DbscanIdle
    /\ RowsIdle

NextPrepare == PrepGet \/ PrepRow \/ PrepReturn \/ PrepCopy

SpecPrepare == InitPrepare /\ [][NextPrepare]_vars

\* request goroutines and the health check, with initSession failing often
\* enough to fill lastErrors; Destroy is not called during the run
HealthStepOften ==
    \/ HealthTick \/ HealthMeasure \/ ReplenishInitOften
    \/ ReplenishRecordError \/ ReplenishSend

NextHealth ==
    \/ \E h \in Handlers : HandlerStep(h)
    \/ HealthStepOften

SpecHealth == Init /\ [][NextHealth]_vars

\* the service from start-up to the end of main: requests are accepted
\* until srv.Shutdown is called, Destroy runs when main or the signal
\* goroutine has called it, and nothing runs once main has returned
InitMain ==
    /\ PoolInit
    /\ CtorReturned
    /\ PipeIdle
    /\ RespIdle
    /\ PredIdle
    /\ BBoxIdle
    /\ IouIdle
    /\ ClusterIdle
    /\ PrepIdle
    /\ MainStart
    /\ DbscanIdle
    /\ RowsIdle

ServedStep(h) ==
    /\ Alive
    /\ pc[h] = "idle" => (~srvClosed /\ mainPc = "serving")
    /\ HandlerStep(h)

CalledDestroyStep(d) ==
    /\ Alive
    /\ caller[d] # "none"
    /\ DestroyStep(d)

NextMain ==
    \/ \E h \in Handlers : ServedStep(h)
    \/ \E d \in Destroyers : CalledDestroyStep(d)
    \/ SignalShutdown \/ ShutdownDeadline \/ SignalCallDestroy
    \/ SignalTeardown \/ MainCallDestroy \/ MainServeError \/ MainFatal
    \/ MainTeardown \/ MainExit

SpecMain == InitMain /\ [][NextMain]_vars

\* request goroutines whose client, if it goes away at all, has gone away
\* before Acquire is called: ctx is done when the select is evaluated
EarlyCancelStep(h) ==
    /\ HandlerStep(h)
    /\ cancelled'[h] # cancelled[h] => pc[h] = "acquire"

NextCancelled == \E h \in Handlers : EarlyCancelStep(h)

SpecCancelled == Init /\ [][NextCancelled]_vars

\* request goroutines and the health check on an open pool, every goroutine
\* scheduled again and again: a goroutine that can take a step is not left
\* waiting forever.  Destroy is not called during the run
NextOpenPool ==
    \/ \E h \in Handlers : HandlerStep(h)
    \/ HealthStep

FairOpenPool ==
    /\ \A h \in Handlers : WF_vars(HandlerStep(h))
    /\ WF_vars(HealthStep)

SpecOpenPool == Init /\ [][NextOpenPool]_vars /\ FairOpenPool

\* dbscan on every list of points, one loop iteration a step
InitDbscan ==
    /\ PoolInit
    /\ CtorReturned
    /\ PipeIdle
    /\ RespIdle
    /\ PredIdle
    /\ BBoxIdle
    /\ IouIdle
    /\ ClusterIdle
    /\ PrepIdle
    /\ MainIdle
    /\ DbscanStart
    /\ RowsIdle

NextDbscan == DbscanVisit \/ DbscanExpand \/ DbscanExpanded \/ DbscanReturn

SpecDbscan == InitDbscan /\ [][NextDbscan]_vars

\* the row-parallel preprocessing for every height and worker count
InitRows ==
    /\ PoolInit
    /\ CtorReturned
    /\ PipeIdle
    /\ RespIdle
    /\ PredIdle
    /\ BBoxIdle
    /\ IouIdle
    /\ ClusterIdle
    /\ PrepIdle
    /\ MainIdle
    /\ DbscanIdle
    /\ RowsStart

NextRows ==
    \/ RowsSpawn
    \/ RowsSpawned
    \/ \E w \in RowWorkers(rpWorkers) : RowsWrite(w) \/ RowsWorkerDone(w)
    \/ RowsWait

SpecRows == InitRows /\ [][NextRows]_vars

\* processPredictions with every goroutine it starts scheduled again and
\* again while it can run: the job sender, each worker, the closer and the
\* caller
FairPredictions ==
    /\ WF_vars(JobSend \/ JobClose)
    /\ \A w \in Workers :
           WF_vars(WorkerJob(w) \/ WorkerRangeEnd(w) \/ WorkerSend(w))
    /\ WF_vars(ResultsClose)
    /\ WF_vars(Gather \/ GatherEnd \/ SortAndReturn)

SpecPredictionsFair ==
    InitPredictions /\ [][NextPredictions]_vars /\ FairPredictions

\* ------------------------------------------------------------------ claims
\* positions at which a request goroutine has a session in hand: from the
\* receive in Acquire up to the send (or session.Destroy) in Release
HoldingPcs == {"acqMetrics", "acqMetrics2", "process", "release",
               "relMetrics", "relMetrics2", "relSend"}
Holding(h) == pc[h] \in HoldingPcs /\ sess[h] # Nil
Leased == {h \in Handlers : Holding(h)}
InQueue(s) == \E i \in 1..Len(sessions) : sessions[i] = s

\* C1: a session is held by at most one handler at a time: while a handler
\* holds session s, no other handler holds s and s is not in the queue for
\* another Acquire to receive.
C1_ExclusiveLease ==
    \A h \in Handlers : Holding(h) =>
        /\ ~InQueue(sess[h])
        /\ \A g \in Handlers \ {h} : Holding(g) => sess[g] # sess[h]

\* C1 witness: two handlers hold sessions at the same time (the second one
\* was put into the queue by the health check while the first was leased)
C1_Witness ==
    \E h, g \in Handlers :
        /\ h # g /\ pc[h] = "process" /\ pc[g] = "process"
        /\ sess[h] # Nil /\ sess[g] # Nil

\* C2: leased sessions plus available sessions never exceed the capacity.
C2_CapacityBound == Cardinality(Leased) + Len(sessions) <= PoolSize

\* no request is inside Acquire or Release
Quiescent ==
    \A h \in Handlers :
        pc[h] \in {"idle", "decode", "acquire", "process", "release", "done"}

\* C3: with only Acquire and Release running, at every quiescent point the
\* available sessions plus the leased sessions number exactly the capacity.
C3_Conservation ==
    Quiescent => Len(sessions) + Cardinality(Leased) = PoolSize

\* C3 witness: a quiescent point with one session out on lease after another
\* request has already returned its session to the queue
C3_Witness ==
    /\ Quiescent
    /\ \E h, g \in Handlers :
          /\ pc[h] = "process" /\ sess[h] # Nil
          /\ pc[g] = "done" /\ returnedTo[g] = "queue"

\* C4: every snapshot returned by GetMetrics satisfies
\* totalAcquired - totalReleased = inUse.
C4_SnapshotBalance ==
    snapshot # NoSnapshot =>
        snapshot.totalAcquired - snapshot.totalReleased = snapshot.inUse

\* C4 witness: a snapshot taken while a writer interleaves with Destroy: a
\* session is counted in use, one has been released, the pool is closed
C4_Witness ==
    /\ snapshot # NoSnapshot
    /\ snapshot.inUse = 1 /\ snapshot.totalReleased = 1
    /\ closed

\* C5: once the pool is marked closed, no Acquire is granted a session: a
\* handler waiting in the select does not take the receive branch.
C5_NoLeaseAfterClose ==
    [][\A h \in Handlers :
          (closed /\ pc[h] = "select") => pc'[h] # "acqMetrics"]_vars

\* C6: after Destroy has returned and with no lease outstanding, every
\* session ever constructed has been destroyed exactly once.
C6_AllDestroyedOnce ==
    ((\E d \in Destroyers : dpc[d] = "returned") /\ Leased = {})
        => \A s \in 1..built : destroyCnt[s] = 1

\* the pool is saturated for handler h: nothing to receive, channel open
Saturated == Len(sessions) = 0 /\ ~chanClosed

\* C7: from a saturated pool, an Acquire whose context is not cancelled
\* leaves the select only by the expired timer; it then returns the timeout
\* error, holds no session, adds exactly one to acquireFailures and leaves
\* totalAcquired, inUse and the queue as they were.
C7_BoundedWait ==
    [][\A h \in Handlers :
          (pc[h] = "select" /\ pc'[h] # "select" /\ Saturated
             /\ ~cancelled[h])
          => /\ timerFired[h]
             /\ acqErr'[h] = "timeout" /\ ~acquired'[h] /\ sess'[h] = Nil
             /\ pc'[h] = "done"
             /\ acquireFailures' = acquireFailures + 1
             /\ UNCHANGED <<totalAcquired, inUse, totalReleased, sessions>>
      ]_vars

\* C7 witness: a request ended by the timeout while another request holds
\* the only session
C7_Witness ==
    \E h, g \in Handlers :
        /\ pc[h] = "done" /\ acqErr[h] = "timeout" /\ ~cancelled[h]
        /\ acquireFailures = 1
        /\ pc[g] = "process" /\ sess[g] # Nil

\* C8: from a saturated pool, an Acquire whose context is cancelled before
\* the timer expires leaves the select only by the cancellation branch: it
\* returns the cancellation error, holds no session and changes none of
\* totalAcquired, inUse, acquireFailures.
C8_CancelledAcquire ==
    [][\A h \in Handlers :
          (pc[h] = "select" /\ pc'[h] # "select" /\ Saturated
             /\ cancelled[h] /\ ~timerFired[h])
          => /\ acqErr'[h] = "cancelled" /\ ~acquired'[h] /\ sess'[h] = Nil
             /\ pc'[h] = "done"
             /\ UNCHANGED <<totalAcquired, inUse, acquireFailures,
                            totalReleased, sessions>>
      ]_vars

\* C8 witness: a request ended by cancellation while another request holds
\* the only session and nothing was counted as a failure
C8_Witness ==
    \E h, g \in Handlers :
        /\ pc[h] = "done" /\ acqErr[h] = "cancelled"
        /\ acquireFailures = 0 /\ totalAcquired = 1
        /\ pc[g] = "process" /\ sess[g] # Nil

\* C9: a request calls Release exactly once when its Acquire succeeded and
\* never otherwise; a request that ends with processing_error has called
\* Release, and on an open pool that Release put the session back in the
\* queue.
C9_ReleaseOncePerAcquire ==
    \A h \in Handlers :
        /\ relCalls[h] <= 1
        /\ relCalls[h] = 1 => acquired[h]
        /\ pc[h] = "done" => relCalls[h] = (IF acquired[h] THEN 1 ELSE 0)
        /\ (pc[h] = "done" /\ resp[h] = "500 processing_error")
              => /\ relCalls[h] = 1
                 /\ returnedTo[h] = "queue" \/ closed
        /\ returnedTo[h] = "queue" => relCalls[h] = 1

\* C9 witness: a request that failed in the pipeline has returned its
\* session, and a later request is processing with that same session
C9_Witness ==
    \E h, g \in Handlers :
        /\ h # g
        /\ pc[h] = "done" /\ resp[h] = "500 processing_error"
        /\ returnedTo[h] = "queue"
        /\ pc[g] = "process" /\ sess[g] = sess[h] /\ sess[g] # Nil

\* C10: Destroy is idempotent: the queue is closed at most once, no session
\* is destroyed twice, and a Destroy call that finds the pool closed returns
\* without changing the pool.
C10_DestroyIdempotent ==
    /\ [](closeCount <= 1 /\ \A s \in SessionIds : destroyCnt[s] <= 1)
    /\ [][\A d \in Destroyers :
             (closed /\ dpc[d] = "idle" /\ dpc'[d] # "idle")
             => (dpc'[d] = "returned" /\ UNCHANGED poolVars)]_vars

\* C10 witness: both callers of Destroy have returned, the queue was closed
\* once and a queued session was destroyed by the drain
C10_Witness ==
    /\ \A d \in Destroyers : dpc[d] = "returned"
    /\ closeCount = 1
    /\ \E s \in SessionIds : destroyCnt[s] = 1

\* C11: when NewModelSessionPool returns an error (the k-th initSession
\* failed), each of the k-1 sessions built before has been destroyed exactly
\* once, no session is left in the channel, no pool is returned and the
\* health-check goroutine was not started.
C11_FailedConstruction ==
    (ctorPc = "returned" /\ ctorResult = "error") =>
        /\ ctorBuilt = ctorI /\ ctorI < ctorSize
        /\ \A s \in CtorIds :
              ctorDestroyed[s] = (IF s <= ctorBuilt THEN 1 ELSE 0)
        /\ ctorQueue = <<>>
        /\ ~ctorLoop

\* C11 witness: the third initSession failed after two sessions were built
C11_Witness ==
    /\ ctorPc = "returned" /\ ctorResult = "error"
    /\ ctorI = 2 /\ ctorBuilt = 2
    /\ ctorDestroyed[1] = 1 /\ ctorDestroyed[2] = 1

\* the stage a request is in; "attempt" is ProcessImage's own loop control
\* between two runs of the inner pipeline
StageOf(p, q) ==
    CASE p \in {"idle", "decode"} -> "decode"
      [] p \in {"acquire", "select", "acqMetrics", "acqMetrics2"} -> "acquire"
      [] p = "process" /\ q \in {"preprocess", "run", "postprocess",
                                  "cluster"} -> q
      [] p = "process" -> "attempt"
      [] p = "done" -> "done"
      [] OTHER -> "release"

\* the stage changes a request may make: forward along decode, acquire,
\* preprocess, run, postprocess, cluster, release; back to the loop control
\* from the inner pipeline; out to the end when decode or acquire fails
StageOrder ==
    {<<"decode", "acquire">>, <<"decode", "done">>,
     <<"acquire", "attempt">>, <<"acquire", "done">>,
     <<"attempt", "preprocess">>, <<"attempt", "release">>,
     <<"preprocess", "run">>, <<"preprocess", "attempt">>,
     <<"run", "postprocess">>, <<"run", "attempt">>,
     <<"postprocess", "cluster">>, <<"postprocess", "attempt">>,
     <<"cluster", "attempt">>,
     <<"release", "done">>}

\* C12: within a request the stages follow one another in the order decode,
\* acquire, preprocess, run, postprocess, cluster, release (the inner block
\* repeated by retries), and a request answered with invalid_request or
\* invalid_image has acquired no session and run no stage after decode.
C12_StageOrder ==
    /\ [](\A h \in Handlers :
            resp[h] \in {"400 invalid_request", "400 invalid_image"}
            => /\ ~acquired[h] /\ sess[h] = Nil /\ acqErr[h] = "none"
               /\ innerRuns[h] = 0 /\ relCalls[h] = 0)
    /\ [][\A h \in Handlers :
             \/ StageOf(pc'[h], piPc'[h]) = StageOf(pc[h], piPc[h])
             \/ <<StageOf(pc[h], piPc[h]), StageOf(pc'[h], piPc'[h])>>
                   \in StageOrder]_vars

\* C12 witness: one request went through every stage twice (a retry) and
\* returned its session, another was rejected at decode
C12_Witness ==
    \E h, g \in Handlers :
        /\ pc[h] = "done" /\ resp[h] = "200" /\ innerRuns[h] = 2
        /\ returnedTo[h] = "queue"
        /\ pc[g] = "done" /\ resp[g] = "400 invalid_image"

\* C13: ProcessImage runs the inner pipeline at most RetryAttempts times;
\* the k-th sleep lasts k * RetryDelayMs and there is none after the last
\* attempt; boxes are returned by the attempt that succeeded with no attempt
\* after it; an error is returned only after the last attempt and is the
\* last error; a context found cancelled at the top of the loop ends the
\* call with the cancellation error before that attempt runs, and no
\* attempt starts without that test.
C13_RetryPolicy ==
    /\ [](\A h \in Handlers :
            /\ innerRuns[h] <= RetryAttempts
            /\ waited[h] = [k \in 1..Len(waited[h]) |-> k * RetryDelayMs]
            /\ piResult[h] = "boxes"
                 => innerRuns[h] = attempt[h]
                    /\ Len(waited[h]) = innerRuns[h] - 1
            /\ piResult[h] \in {"inference", "shape"}
                 => /\ innerRuns[h] = RetryAttempts
                    /\ Len(waited[h]) = RetryAttempts - 1
                    /\ piResult[h] = lastErr[h]
            /\ piResult[h] = "cancelled"
                 => innerRuns[h] = attempt[h] - 1
                    /\ Len(waited[h]) = innerRuns[h])
    /\ [][\A h \in Handlers :
             /\ (piPc[h] = "check" /\ cancelled[h] /\ piPc'[h] # "check")
                  => /\ piResult'[h] = "cancelled" /\ piPc'[h] = "ret"
                     /\ innerRuns'[h] = innerRuns[h]
             /\ innerRuns'[h] # innerRuns[h]
                  => /\ innerRuns'[h] = innerRuns[h] + 1
                     /\ piPc[h] = "preprocess"
             /\ (piPc'[h] = "preprocess" /\ piPc[h] # "preprocess")
                  => piPc[h] = "check" /\ ~cancelled[h]]_vars

\* C13 witness: one request failed three times with sleeps of 100 and 200
\* ms, another was found cancelled before its second attempt
C13_Witness ==
    \E h, g \in Handlers :
        /\ piResult[h] = "inference" /\ innerRuns[h] = 3
        /\ waited[h] = <<100, 200>>
        /\ piResult[g] = "cancelled" /\ innerRuns[g] = 1
        /\ waited[g] = <<100>>

\* C14: once postprocessing has reported the length mismatch the request
\* makes no further attempt: no sleep and no new run of the inner pipeline.
C14_ShapeMismatchNotRetried ==
    [][\A h \in Handlers :
          lastErr[h] = "shape"
          => innerRuns'[h] = innerRuns[h] /\ waited'[h] = waited[h]]_vars

C16_CancelDroppedSilently ==
    \A h \in Handlers :
        (pc[h] = "done" /\ acqErr[h] = "cancelled") => resp[h] = "none"

\* C17: in a 200 body face_count is the number of boxes, is_valid holds
\* exactly when that number is 1, and message is the string for no face,
\* for one face, or one and the same string for every count of two or more.
C17_ResponseBody ==
    body # NoResponse =>
        /\ body.face_count = boxCount
        /\ body.is_valid = (boxCount = 1)
        /\ body.message =
              (CASE boxCount = 0 -> getFaceValidationMessage(0)
                 [] boxCount = 1 -> getFaceValidationMessage(1)
                 [] OTHER -> getFaceValidationMessage(2))

\* C18: the list processPredictions returns holds exactly one detection
\* for each cell whose confidence is at least the threshold and none for any
\* other cell, and it is ordered by non-increasing confidence.
C18_Detections ==
    predPc = "returned" =>
        /\ \A i \in Cells :
              Cardinality({k \in 1..Len(detections) :
                              detections[k].cell = i})
                = (IF predictions[i] >= ConfThreshold THEN 1 ELSE 0)
        /\ \A k \in 1..Len(detections) :
              /\ detections[k].cell \in Cells
              /\ detections[k].Confidence = predictions[detections[k].cell]
        /\ \A k \in 1..(Len(detections) - 1) :
              detections[k].Confidence >= detections[k + 1].Confidence

\* C18 witness: both workers found detections, three cells survive (one
\* exactly at the threshold, the last cell above it and returned first) and
\* one cell is below the threshold
C18_Witness ==
    /\ predPc = "returned"
    /\ Len(detections) = 3
    /\ detections[1].Confidence = ConfThreshold + 1
    /\ detections[1].cell = 4
    /\ detections[3].Confidence = ConfThreshold
    /\ \E i \in Cells : predictions[i] < ConfThreshold
    /\ Len(localDetections[1]) > 0 /\ Len(localDetections[2]) > 0

\* C19: every returned box has x1 <= x2, y1 <= y2 and all four coordinates
\* inside the original image.
C19_BoxInsideImage ==
    bboxPc = "returned" =>
        /\ bbox[1] <= bbox[3] /\ bbox[2] <= bbox[4]
        /\ 0 <= bbox[1] /\ bbox[1] <= ToInt32(origWidth)
        /\ 0 <= bbox[3] /\ bbox[3] <= ToInt32(origWidth)
        /\ 0 <= bbox[2] /\ bbox[2] <= ToInt32(origHeight)
        /\ 0 <= bbox[4] /\ bbox[4] <= ToInt32(origHeight)

\* C20: before clamping and truncation the corners are the cell's centre
\* and size, taken as model-input pixels, scaled by origWidth / InputWidth
\* and origHeight / InputHeight.
C20_CornersInPixelUnits ==
    bboxPc \in {"clamp", "returned"} =>
        corners =
          <<FMul(coords[1] - FDiv(coords[3], F(2)),
                 FDiv(origWidth, F(InputWidth))),
            FMul(coords[2] - FDiv(coords[4], F(2)),
                 FDiv(origHeight, F(InputHeight))),
            FMul(coords[1] + FDiv(coords[3], F(2)),
                 FDiv(origWidth, F(InputWidth))),
            FMul(coords[2] + FDiv(coords[4], F(2)),
                 FDiv(origHeight, F(InputHeight)))>>

\* two boxes share no area: one lies left of, right of, above or below the
\* other (touching edges included)
Disjoint(a, b) ==
    a[3] <= b[1] \/ b[3] <= a[1] \/ a[4] <= b[2] \/ b[4] <= a[2]

\* C21: calculateIOU is symmetric and lies in [0,1]; it is 0 for disjoint
\* boxes and 1 for identical boxes, identical boxes of zero width or height
\* included.
C21_IouSymmetricBounded ==
    iouPc = "returned" =>
        /\ QuotEq(iou, iouSwapped)
        /\ QuotInUnit(iou)
        /\ Disjoint(box1, box2) => QuotIsZero(iou)
        /\ box1 = box2 => QuotIsOne(iou)

\* smallest and largest member of a non-empty set of integers
MinOf(S) == CHOOSE x \in S : \A y \in S : x <= y
MaxOf(S) == CHOOSE x \in S : \A y \in S : x >= y

\* the axis-aligned union of the boxes of the detections with index in I
UnionOf(d, I) ==
    <<MinOf({d[i].BBox[1] : i \in I}), MinOf({d[i].BBox[2] : i \in I}),
      MaxOf({d[i].BBox[3] : i \in I}), MaxOf({d[i].BBox[4] : i \in I})>>

\* detections i and j of the call lie within eps of one another
Near(i, j) ==
    WithinEps(clDets[i].BBox, clDets[j].BBox, MedianArea(clDets))

\* C22: when all detections given to clusterBoxes lie within eps of one
\* another, the result is exactly one box, the axis-aligned union of all of
\* them; a list of a single box gives back that box.
C22_OneClusterUnion ==
    (/\ clPc = "returned"
     /\ Len(clDets) > 0
     /\ \A i, j \in 1..Len(clDets) : Near(i, j))
    => /\ finalBoxes = <<UnionOf(clDets, 1..Len(clDets))>>
       /\ Len(clDets) = 1 => finalBoxes = <<clDets[1].BBox>>

\* C22 witness: three or more detections, not all the same box, all within
\* eps of one another, have been clustered.
C22_Witness ==
    /\ clPc = "returned"
    /\ Len(clDets) >= 3
    /\ \A i, j \in 1..Len(clDets) : Near(i, j)
    /\ \E i, j \in 1..Len(clDets) : clDets[i].BBox # clDets[j].BBox
    /\ Len(finalBoxes) = 1

\* the detections split into the group G and the rest: both have two or
\* more members, members of one group are within eps of one another, and
\* no detection of one group is within eps of a detection of the other
TwoGroups(G) ==
    LET H == (1..Len(clDets)) \ G
    IN /\ Cardinality(G) >= 2 /\ Cardinality(H) >= 2
       /\ \A i, j \in G : Near(i, j)
       /\ \A i, j \in H : Near(i, j)
       /\ \A i \in G : \A j \in H : ~Near(i, j)

\* C23: two groups of detections, each of two or more within eps of one
\* another and every detection of one farther than eps from every detection
\* of the other, give exactly two boxes; the response has face_count = 2
\* and is_valid = false.
C23_TwoClusters ==
    (\E G \in SUBSET (1..Len(clDets)) : TwoGroups(G))
    => /\ clPc = "returned" => Len(finalBoxes) = 2
       /\ respPc = "written" =>
              body.face_count = 2 /\ body.is_valid = FALSE

\* C23 witness: the response to a request whose detections form two such
\* groups has been written.
C23_Witness ==
    /\ respPc = "written"
    /\ \E G \in SUBSET (1..Len(clDets)) : TwoGroups(G)
    /\ body.face_count = 2

\* the numbers of boxes clusterBoxes can return for the list d, over the
\* orders in which the cluster map may be walked
FaceCounts(d) ==
    LET cl == dbscan(Points(d), MedianArea(d), MinPointsFor(Len(d)))
    IN IF Len(d) = 0 THEN {0}
       ELSE {Len(processClusters(d, cl, o)) :
                o \in MapOrders(groupBoxes(d, cl).clusterMap)}

\* C24: for a fixed model output and image size the response (face_count
\* and is_valid) is the same on every run: it does not depend on the order
\* in which detections of equal confidence stand after the workers have
\* delivered them and the sort has run, nor on the order in which the
\* cluster map is walked.
C24_Deterministic ==
    respPc = "written" =>
        \A p \in SortedOrders(clDets) :
            \A n \in FaceCounts([k \in 1..Len(clDets) |-> clDets[p[k]]]) :
                /\ body.face_count = n
                /\ body.is_valid = (n = 1)

\* noise detection i overlaps, by more than the threshold, a detection
\* that stands before it and belongs to a cluster
OverlapsPlaced(i) ==
    \E j \in 1..(i - 1) :
        /\ clusters[j] # 0 - 1
        /\ OverThreshold(calculateIOU(clDets[i].BBox, clDets[j].BBox))

\* the noise detections that are kept, in order of their index
KeptNoise ==
    SelectSeq([i \in 1..Len(clDets) |-> i],
              LAMBDA i : clusters[i] = 0 - 1 /\ ~OverlapsPlaced(i))

\* the detections dbscan put in cluster c
Members(c) == {i \in 1..Len(clDets) : clusters[i] = c}

\* the cluster ids in use
UsedClusters == {clusters[i] : i \in 1..Len(clDets)} \ {0 - 1}

\* C30: a noise detection whose IoU with a box already placed in a cluster
\* exceeds 0.45 is removed from the output and leaves that cluster's union
\* box as it was; a noise detection with no such overlap is emitted as a
\* final box of its own.  The boxes clusterBoxes returns are: first the
\* noise detections without such an overlap, each as its own box, in the
\* order of the list; then exactly one box for every cluster of dbscan,
\* the union of the detections dbscan put in it and of nothing else.
C30_NoiseAbsorption ==
    (clPc = "returned" /\ Len(clDets) > 0) =>
        LET nk == Len(KeptNoise)
        IN /\ Len(finalBoxes) = nk + Cardinality(UsedClusters)
           /\ \A k \in 1..nk : finalBoxes[k] = clDets[KeptNoise[k]].BBox
           /\ \A k \in (nk + 1)..Len(finalBoxes) :
                  \E c \in UsedClusters :
                      finalBoxes[k] = UnionOf(clDets, Members(c))
           /\ \A c \in UsedClusters :
                  \E k \in (nk + 1)..Len(finalBoxes) :
                      finalBoxes[k] = UnionOf(clDets, Members(c))

\* C30 witness: one noise detection was absorbed and another was kept,
\* and the absorbed box reaches outside the union of the cluster it met.
C30_Witness ==
    /\ clPc = "returned"
    /\ Len(KeptNoise) > 0
    /\ \E i \in 1..Len(clDets) :
          /\ clusters[i] = 0 - 1
          /\ OverlapsPlaced(i)
          /\ \A c \in UsedClusters :
                 UnionOf(clDets, Members(c) \cup {i})
                     # UnionOf(clDets, Members(c))

\* prepareInput has filled the tensor from an image.RGBA
PreparedRGBA == prepPc = "done" /\ picKind = "RGBA"
\* channel c of pixel (x, y) of the image, a byte of Pix
Sample(x, y, c) == pix[y * PixStride + 4 * x + c + 1]
\* two float32 values of the same sign at most one unit in the last place
\* apart
WithinOneUlp(a, b) == a - b \in -1..1

\* C25: on every preprocessing path the tensor entry at index
\* c*H*W + y*W + x is channel c of pixel (x, y) divided by 255 (taken here
\* to the last unit of float32), and every entry lies in [0, 1]
C25_PlanarNormalised ==
    PreparedRGBA =>
        \A c \in PrepChannels, y \in PrepRows, x \in PrepCols :
            LET entry == tensorData[c * ChannelSize + y * PrepWidth + x + 1]
            IN /\ WithinOneUlp(entry, F32Div255(Sample(x, y, c)))
               /\ 0 <= entry
               /\ entry <= F32One

\* C26: the tensor the SIMD fast path fills equals, element for element,
\* the tensor the scalar fallback fills from the same image
C26_PreprocessParity ==
    (PreparedRGBA /\ RowRoutine(cpuFlags, rowAsm) # "generic") =>
        tensorData = processGeneric(picKind, pix)

\* C27: the buffer is on lease when its contents are copied into the input
\* tensor, and it has gone back to the pool exactly once when prepareInput
\* is done
C27_LeasedUntilCopied ==
    prepPc = "done" => (copyLease = "leased" /\ lease = "pooled" /\ puts = 1)

\* the errors recordError has been given last: failure number n is the
\* n-th failed initSession
RecentFailures(n) ==
    LET kept == IF n > MaxLastErrors THEN MaxLastErrors ELSE n
    IN [i \in 1..kept |-> n - kept + i]
\* the health check takes the step in which initSession fails, or the
\* step in which the failure is recorded
FailureStep ==
    \/ hcPc = "replenish" /\ hcPc' = "record"
    \/ hcPc = "record" /\ hcPc' # "record"

\* C28: a failed initSession in replenishSessions is recorded in
\* lastErrors, which holds the most recent failures and never more than
\* 10; the failure leaves the queue, the closed flag and the metrics as
\* they were, and the health loop goes on with the next iteration or tick
C28_ReplenishFailureRecorded ==
    /\ [](Len(lastErrors) <= MaxLastErrors
          /\ lastErrors = RecentFailures(initFailures))
    /\ [][FailureStep =>
            /\ sessions' = sessions
            /\ closed' = closed
            /\ chanClosed' = chanClosed
            /\ UNCHANGED metricVars
            /\ ~crashed'
            /\ (hcPc = "record" =>
                  /\ initFailures' = initFailures + 1
                  /\ lastErrors'[Len(lastErrors')] = initFailures'
                  /\ hcPc' \in {"replenish", "wait"})]_vars

\* C28 witness: more failures than lastErrors keeps have been recorded,
\* the oldest were dropped and the health check waits for its next tick
C28_Witness ==
    /\ initFailures > MaxLastErrors
    /\ Len(lastErrors) = MaxLastErrors
    /\ lastErrors[1] = initFailures - MaxLastErrors + 1
    /\ hcPc = "wait"

\* C29: the pool is destroyed and the runtime torn down only after the
\* drain: once Destroy has begun, or ort.DestroyEnvironment was called,
\* either the 30 s deadline has elapsed or no request is in flight, so
\* before the deadline no handler holds a session while Destroy runs
C29_DestroyAfterDrain ==
    (closed \/ envDestroyed > 0) =>
        (deadline \/ \A h \in Handlers : ~InFlight(h))

\* C31: an Acquire called with ctx already done leaves its select with the
\* cancellation error and without a session, whatever the queue holds
C31_CancelledBeforeAcquire ==
    [][\A h \in Handlers :
          (pc[h] = "select" /\ cancelled[h] /\ pc'[h] # "select") =>
              (acqErr'[h] = "cancelled" /\ sess'[h] = Nil)]_vars

\* a goroutine executes `p.sessions <- session`: Release's send or the send
\* in replenishSessions
SendStep ==
    \/ \E h \in Handlers : pc[h] = "relSend" /\ pc'[h] # "relSend"
    \/ hcPc = "send" /\ (hcPc' # "send" \/ crashed')

\* C32: no send on the pool's queue is executed after Destroy has closed
\* the channel, neither by Release nor by replenishSessions
C32_NoSendAfterClose == [][SendStep => ~chanClosed]_vars

\* C33: every Release called on an open pool returns: the handler that has
\* entered Release reaches the end of its request
C33_ReleaseReturns ==
    \A h \in Handlers : (pc[h] = "release" /\ ~closed) ~> (pc[h] = "done")

\* C34: in dbscan a point that has a cluster id >= 0 keeps it: a step
\* changes only entries that are -1, and gives them the current cluster;
\* the finished slice is the one dbscan returns
C34_AssignedOnce ==
    /\ [][\A p \in 1..Len(dbPoints) :
             dbClusters'[p] # dbClusters[p] =>
                 (dbClusters[p] = 0 - 1 /\ dbClusters'[p] = dbCurrent)]_vars
    /\ [](dbPc = "returned" => dbClusters = dbscan(dbPoints, dbArea, dbMinPts))

\* C34 witness: dbscan has returned two clusters, and the first holds two
\* points farther apart than eps, the second of them reached by expansion
C34_Witness ==
    /\ dbPc = "returned"
    /\ \E p, q \in 1..Len(dbPoints) :
          /\ dbClusters[p] = 0 /\ dbClusters[q] = 0
          /\ ~WithinEps(dbPoints[p], dbPoints[q], dbArea)
    /\ \E r \in 1..Len(dbPoints) : dbClusters[r] = 1

\* C35: in the row-parallel scalar preprocessing the workers' row ranges are
\* pairwise disjoint and cover every row for every worker count >= 1: no
\* buffer index is written twice, each is written by the worker whose range
\* holds its row, and when wg.Wait() returns each has been written once
C35_RowsPartitioned ==
    rpPc # "none" =>
        /\ \A v, w \in RowWorkers(rpWorkers) :
               v < w => EndRow(rpFile, v, rpHeight, rpWorkers)
                            <= StartRow(w, rpHeight, rpWorkers)
        /\ \A y \in 0..(rpHeight - 1) :
               \E w \in RowWorkers(rpWorkers) :
                   /\ StartRow(w, rpHeight, rpWorkers) <= y
                   /\ y < EndRow(rpFile, w, rpHeight, rpWorkers)
        /\ \A i \in DOMAIN rpWriters : Len(rpWriters[i]) <= 1
        /\ rpPc = "returned" => \A i \in DOMAIN rpWriters : Len(rpWriters[i]) = 1
\* C35 witness: wg.Wait() has returned for a worker count that does not
\* divide the height, with two workers having written
C35_Witness ==
    /\ rpPc = "returned"
    /\ rpHeight % rpWorkers # 0
    /\ \E i, j \in DOMAIN rpWriters :
           /\ rpWriters[i] # <<>> /\ rpWriters[j] # <<>>
           /\ rpWriters[i] # rpWriters[j]
\* C35 witness of more workers than rows: all rows written by the last worker
C35_WitnessMany ==
    /\ rpPc = "returned"
    /\ rpWorkers > rpHeight
    /\ \A i \in DOMAIN rpWriters : rpWriters[i] = <<rpWorkers - 1>>

\* the cells whose detections are in d
CellsOf(d) == {d[k].cell : k \in 1..Len(d)}
\* C36: processPredictions terminates for every output tensor: the caller
\* reaches its return, and it returns only after the sender has sent and
\* closed, every worker has finished and every chunk has been scanned (the
\* returned detections are those of all surviving cells)
C36_Terminates ==
    /\ <>(predPc = "returned")
    /\ [](predPc = "returned" =>
              /\ jobNext >= NumPredictions /\ jobsClosed /\ jobs = <<>>
              /\ \A w \in Workers : wPc[w] = "done"
              /\ resultsClosed /\ results = <<>>
              /\ CellsOf(detections) = {i \in Cells : Survives(predictions[i])})
\* C36 witness: the call has returned with a detection from every chunk,
\* both workers having sent a result
C36_Witness ==
    /\ predPc = "returned"
    /\ CellsOf(detections) = Cells
    /\ \A w \in Workers : localDetections[w] # <<>>

\* C37: clusterBoxes returns no box for an empty detection list and between
\* one and len(detections) boxes for any other, and the faceCount the
\* handler derives is 0 exactly when the list was empty
C37_BoxCountBounds ==
    /\ clPc = "returned" =>
           IF Len(clDets) = 0
           THEN finalBoxes = <<>>
           ELSE Len(finalBoxes) >= 1 /\ Len(finalBoxes) <= Len(clDets)
    /\ respPc \in {"build", "encode", "written"} =>
           /\ faceCount = Len(finalBoxes)
           /\ faceCount = 0 <=> Len(clDets) = 0
\* C37 witness: four detections came back as one box (a noise box was
\* absorbed by a cluster) and the handler counted one face
C37_Witness ==
    /\ respPc = "written"
    /\ Len(clDets) = MaxDets
    /\ \E i \in 1..Len(clusters) : clusters[i] = 0 - 1
    /\ faceCount = 1

\* C38: at every moment at which no request is inside Acquire or Release
\* the inUse gauge equals the number of sessions out on lease, and the gauge
\* is never negative nor greater than the pool size
C38_GaugeMatchesLeases ==
    /\ Quiescent => inUse = Cardinality(Leased)
    /\ inUse >= 0
    /\ inUse <= PoolSize

====
